---------------------------- MODULE Spec2Model ----------------------------
(***************************************************************************)
(* A model of wx-cache-read: locating the WeChat "Favorites" directory     *)
(* (WeChatParser._find_favorites_path), discovering and ordering its media *)
(* files (WeChatParser._find_media_files and friends) and copying the      *)
(* discovered entries to an output folder (SaveThread in main_window.py).  *)
(*                                                                         *)
(* Strings are sequences of one-character strings, so that prefix, suffix, *)
(* substring, case folding and decimal formatting are computed the way the *)
(* Python code computes them.  A path is a sequence of names.              *)
(***************************************************************************)
EXTENDS Integers, Sequences, FiniteSets, TLC

VARIABLES
    \* --- path resolution (WeChatParser._find_favorites_path)
    fs,         \* the set of paths that exist on disk
    root,       \* self.cache_path
    rpc,        \* "start" before the call, "done" after it
    result,     \* the returned path, or NotFound for FileNotFoundError
    \* --- discovery (one WeChatParser instance on a resolved favorites_path)
    listing,    \* the files of favorites_path, in os.walk order
    db,         \* the favorites database found by _find_favorites_db, or NoDb
    media_files,\* self.media_files
    scans,      \* how many times _find_media_files has run on the instance
    first_list, \* what the first run of _find_media_files returned (Unset before)
    from_walk,  \* whether the last run took the file-system branch
    scanned,    \* the directory content the last run saw
    strategy,   \* the last value of get_sorting_strategy_info (Unset before)
    yielded,    \* what the last parse_favorites yielded (Unset before)
    touched,    \* whether the directory changed after the instance was made
    raised,     \* the exception the last _find_media_files let escape (None: none)
    winner,     \* the 1-based index of the query template the last run took its
                \* rows from (0: none)
    executed,   \* how many query templates the last run executed
    \* --- transfer (one SaveThread)
    input,      \* the list the thread was constructed with
    is_archive, \* self.is_archive
    files,      \* self.files
    disk,       \* the source and staging files that exist, with their bytes
    save_folder,\* the files of the destination folder, with their bytes
    safe_temp_dir, \* whether self.safe_temp_dir is set and exists
    file_handles,  \* whether archive_parser.file_handles holds open handles
    tpc,        \* the state of the run: Idle, Preparing, Copying, Cleanup, Done
    step,       \* the statement of run() that executes next
    saver,      \* the save function in use: parser, direct or archive
    idx,        \* i, the index of the loop in progress
    new_files,  \* new_files of copy_to_safe_temp_dir
    saved_count,
    failed_count,
    cleanups,   \* calls of cleanup_temp_dir
    finished,   \* emissions of the finished signal
    errors,     \* emissions of the error_occurred signal
    trace,      \* the states the run has been in, in order
    out_name,   \* per input position, the name its entry was last written under
    overwritten,\* whether a write hit a name that existed in the destination
    aborted,    \* whether an unexpected exception has been raised
    progress,   \* the values of progress_updated the run has emitted, in order
    auto_clear, \* config["auto_clear_cache"]
    deleted,    \* the cache files clear_cache has removed
    \* --- archive extractors (ArchiveParser instances of one process)
    archive,    \* the file at archive_path: whether it exists, its extension, its header
    temp_directories, \* ArchiveParser.temp_directories, the class-wide registry
    scratch,    \* the extraction directories that exist on disk
    created,    \* every extraction directory an ArchiveParser has created
    parsers,    \* the ArchiveParser instances made so far
    opened,     \* how the last ArchiveParser(archive_path) ended
    swept,      \* whether clear_temp_archives was the last call made
    members,    \* the files the extraction puts into the directory, in os.walk order
    archive_media, \* what the last ArchiveParser._find_media_files returned (None before)
    \* --- the registry seen statement by statement (threads of one process)
    disposing,  \* the __del__ in progress: the instance and the statement reached
    sweep,      \* the cleanup_all_temp_dirs in progress: the statement reached and
                \* the part of the copied list still to visit
    value_errors, \* the calls in which list.remove raised ValueError
    \* --- the main window (MainWindow and its worker threads)
    parse_btn,  \* parse_btn.isEnabled()
    save_btn,   \* save_btn.isEnabled()
    archive_btn,\* archive_btn.isEnabled()
    preview_list, \* the preview: where its entries come from and how many there are
    running,    \* the worker threads started whose finished slot has not run yet
    events,     \* the signals emitted by the workers and not yet delivered
    dialog,     \* how many show_error calls wait in their message box
    extract_dirs, \* the extraction directories that exist
    has_archive_thread, \* hasattr(self, 'archive_parser_thread')
    config_auto,\* config["auto_clear_cache"] of the window
    saves,      \* per finished transfer: the entries it was given and those it saved
    started,    \* how many worker threads have been started
    last_slot   \* the finished slot that ran last, until another slot runs

rvars == <<fs, root, rpc, result>>
dvars == <<listing, db, media_files, scans, first_list, from_walk, scanned,
           strategy, yielded, touched, raised, winner, executed>>
tvars == <<input, is_archive, files, disk, save_folder, safe_temp_dir, file_handles,
           tpc, step, saver, idx, new_files, saved_count, failed_count, cleanups,
           finished, errors, trace, out_name, overwritten, aborted, progress,
           auto_clear, deleted>>
avars == <<archive, temp_directories, scratch, created, parsers, opened, swept>>
mvars == <<members, archive_media>>
gvars == <<disposing, sweep, value_errors>>
wvars == <<parse_btn, save_btn, archive_btn, preview_list, running, events, dialog,
           extract_dirs, has_archive_thread, config_auto, saves,
           started, last_slot>>
\* the archive listing, the registry threads and the main window
xvars == <<mvars, gvars, wvars>>

(***************************************************************************)
(* Strings                                                                 *)
(***************************************************************************)
UpperAZ == <<"A","B","C","D","E","F","G","H","I","J","K","L","M",
             "N","O","P","Q","R","S","T","U","V","W","X","Y","Z">>
LowerAZ == <<"a","b","c","d","e","f","g","h","i","j","k","l","m",
             "n","o","p","q","r","s","t","u","v","w","x","y","z">>

\* str.lower() on one character
LowerCh(c) ==
    IF \E i \in DOMAIN UpperAZ : UpperAZ[i] = c
    THEN LowerAZ[CHOOSE i \in DOMAIN UpperAZ : UpperAZ[i] = c]
    ELSE c

\* str.lower()
LowerStr(s) == [i \in 1..Len(s) |-> LowerCh(s[i])]

\* str.startswith / str.endswith / the `in` operator on strings
StartsWith(s, p) == Len(s) >= Len(p) /\ SubSeq(s, 1, Len(p)) = p
EndsWith(s, p) == Len(s) >= Len(p) /\ SubSeq(s, Len(s) - Len(p) + 1, Len(s)) = p
Contains(s, p) == \E i \in 1..(Len(s) - Len(p) + 1) : SubSeq(s, i, i + Len(p) - 1) = p

\* the characters of the modelled names, in the order of their code points
CodeOrder ==
    << ".", "0", "1", "2", "3", "4", "5", "6", "7", "8", "9", "_" >> \o LowerAZ
CodeOf(c) == CHOOSE j \in DOMAIN CodeOrder : CodeOrder[j] = c
\* a < b as Python compares strings
RECURSIVE LexLess(_, _)
LexLess(a, b) ==
    IF a = <<>> THEN b # <<>>
    ELSE IF b = <<>> THEN FALSE
    ELSE IF a[1] = b[1] THEN LexLess(Tail(a), Tail(b))
    ELSE CodeOf(a[1]) < CodeOf(b[1])

\* names used by the resolver
sFavorites == <<"F","a","v","o","r","i","t","e","s">>
sFileStorage == <<"F","i","l","e","S","t","o","r","a","g","e">>
sWeChatFiles == <<"W","e","C","h","a","t"," ","F","i","l","e","s">>
sFile == <<"F","i","l","e">>
sImages == <<"I","m","a","g","e","s">>
sVideos == <<"V","i","d","e","o","s">>
sFav == <<"F","a","v">>
sfavorites == <<"f","a","v","o","r","i","t","e","s">>
sfavorite == <<"f","a","v","o","r","i","t","e">>
sfav == <<"f","a","v">>
swxid == <<"w","x","i","d","_">>
\* names that only occur in the modelled directory trees
sW == <<"W">>
sData == <<"D","a","t","a">>
sfavs == <<"f","a","v","s">>
sWxid1 == <<"w","x","i","d","_","1">>
sFavT == <<"F","a","v","T">>
sFavoritesT == <<"F","a","v","o","r","i","t","e","s","T">>
sAJpg == <<"a",".","j","p","g">>
sGone == <<"G","o","n","e">>

(***************************************************************************)
(* The file system seen by the resolver                                    *)
(***************************************************************************)
NotFound == <<>>

RootW == <<sW>>
Basename(p) == p[Len(p)]
Dirname(p) == SubSeq(p, 1, Len(p) - 1)

\* The paths of the modelled trees that are regular files; every other path
\* is a directory.  <<W, wxid_1, Fav>> is a regular file named "Fav".
IsFileNode(p) == Basename(p) = sAJpg \/ p = <<sW, sWxid1, sFav>>

\* the alternative shapes of each subtree of W
FavoritesTrees ==
    { {<<sW, sFavorites>>} \cup direct \cup UNION subs :
        direct \in {{}, {<<sW, sFavorites, sAJpg>>}},
        subs \in SUBSET { {<<sW, sFavorites, d>>, <<sW, sFavorites, d, sAJpg>>} :
                              d \in {sFile, sImages, sVideos} } }
    \cup {{}}
FileStorageTrees ==
    { {<<sW, sFileStorage>>} \cup a \cup b \cup c :
        a \in {{}, {<<sW, sFileStorage, sFavorites>>,
                    <<sW, sFileStorage, sFavorites, sAJpg>>}},
        b \in {{}, {<<sW, sFileStorage, sFav>>,
                    <<sW, sFileStorage, sFav, sAJpg>>}},
        c \in {{}, {<<sW, sFileStorage, sFavT>>},
                   {<<sW, sFileStorage, sFavT>>, <<sW, sFileStorage, sFavoritesT>>}} }
    \cup {{}}
WeChatFilesTrees ==
    { {}, {<<sW, sWeChatFiles>>, <<sW, sWeChatFiles, sFavorites>>,
           <<sW, sWeChatFiles, sFavorites, sAJpg>>} }
DataTrees ==
    { {}, {<<sW, sData>>}, {<<sW, sData>>, <<sW, sData, sAJpg>>},
      {<<sW, sData>>, <<sW, sData, sfavs>>} }
WxidTrees == { {}, {<<sW, sWxid1>>}, {<<sW, sWxid1>>, <<sW, sWxid1, sFav>>} }
RootFiles == { {}, {<<sW, sAJpg>>} }

\* the paths a user may hand to the parser
Roots == { RootW, <<sW, sFileStorage, sFav>>, <<sW, sFileStorage, sFavT>>,
           <<sW, sData>>, <<sW, sGone>> }

Exists(p) == p \in fs
IsDir(p) == p \in fs /\ ~IsFileNode(p)
IsFile(p) == p \in fs /\ IsFileNode(p)
\* os.listdir(p), as a set: the listing order is the operating system's
Children(p) == { q \in fs : Len(q) = Len(p) + 1 /\ SubSeq(q, 1, Len(p)) = p }
SubDirs(p) == { q \in Children(p) : IsDir(q) }


(***************************************************************************)
(* WeChatParser._find_favorites_path                                       *)
(***************************************************************************)
\* base_name == 'favorites' or base_name == 'fav' or base_name.startswith('favorite')
LeafIsFavorites(r) ==
    LET base_name == LowerStr(Basename(r))
    IN  base_name = sfavorites \/ base_name = sfav \/ StartsWith(base_name, sfavorite)

\* an abbreviated leaf: the sibling directories named "favorites" (any case)
FullSiblings(r) ==
    { q \in Children(Dirname(r)) : IsDir(q) /\ LowerStr(Basename(q)) = sfavorites }

\* the leaf of the chosen path is itself a favorites name
DirectChoice(r) ==
    IF LowerStr(Basename(r)) # sfavorites /\ FullSiblings(r) # {}
    THEN FullSiblings(r)
    ELSE {r}

\* possible_paths, in the order they are probed
PossiblePaths(r) ==
    << r \o <<sFavorites>>,
       r \o <<sFileStorage, sFavorites>>,
       r \o <<sWeChatFiles, sFavorites>>,
       r \o <<sFavorites, sFile>>,
       r \o <<sFavorites, sImages>>,
       r \o <<sFavorites, sVideos>> >>

\* for path in paths: if os.path.exists(path): return path
FirstExisting(paths) ==
    IF \E i \in DOMAIN paths : Exists(paths[i])
    THEN paths[CHOOSE i \in DOMAIN paths :
                 Exists(paths[i]) /\ \A j \in 1..(i - 1) : ~Exists(paths[j])]
    ELSE NotFound

\* fav_pattern = re.compile(r'fav.*', re.IGNORECASE); fav_pattern.match(name)
FavPattern(name) == StartsWith(LowerStr(name), sfav)
\* wxid_pattern = re.compile(r'wxid_.*'); wxid_pattern.match(name)
WxidPattern(name) == StartsWith(name, swxid)

\* for root, dirs, _ in os.walk(d): for dir_name in dirs: if match: return
\* The walk is top-down; the order of each listing is the operating system's,
\* so every directory that can be the first match is a possible outcome.
RECURSIVE WalkFav(_)
WalkFav(d) ==
    LET hits == { q \in SubDirs(d) : FavPattern(Basename(q)) }
    IN  IF hits # {} THEN hits ELSE UNION { WalkFav(q) : q \in SubDirs(d) }

\* what one wxid_ directory yields: its fixed paths, then a walk below it
WxidYield(w) ==
    LET wxid_paths == << w \o <<sFavorites>>, w \o <<sFileStorage, sFavorites>>,
                         w \o <<sFav>> >>
    IN  IF FirstExisting(wxid_paths) # NotFound
        THEN {FirstExisting(wxid_paths)}
        ELSE WalkFav(w)

\* for item in os.listdir(cache_path): if wxid_pattern.match(item) and isdir
WxidProbe(r) ==
    IF IsDir(r)
    THEN UNION { WxidYield(w) : w \in { q \in SubDirs(r) : WxidPattern(Basename(q)) } }
    ELSE {}

\* a stricter last resort, files and no subdirectories, which the code does
\* not implement
LastResortFlat(r) == IsDir(r) /\ (\E f \in Children(r) : IsFile(f)) /\ SubDirs(r) = {}
\* os.path.isdir(cache_path) and any(os.path.isfile(join(cache_path, f)) ...)
LastResort(r) == IsDir(r) /\ \E f \in Children(r) : IsFile(f)

\* cache_path.replace("FileStorage/Fav", "FileStorage/Favorites")
CompletePath(r) ==
    [i \in 1..Len(r) |->
        IF i > 1 /\ EndsWith(r[i - 1], sFileStorage) /\ StartsWith(r[i], sFav)
        THEN sFavorites \o SubSeq(r[i], Len(sFav) + 1, Len(r[i]))
        ELSE r[i]]
\* "FileStorage/Fav" in cache_path
NeedsCompletion(r) ==
    \E i \in 2..Len(r) : EndsWith(r[i - 1], sFileStorage) /\ StartsWith(r[i], sFav)

\* the paths _find_favorites_path can return for cache_path r (NotFound stands
\* for the FileNotFoundError it raises)
FindFavoritesPath(r) ==
    IF ~Exists(r) THEN {NotFound}
    ELSE IF LeafIsFavorites(r) THEN DirectChoice(r)
    ELSE IF FirstExisting(PossiblePaths(r)) # NotFound
         THEN {FirstExisting(PossiblePaths(r))}
    ELSE IF WalkFav(r) # {} THEN WalkFav(r)
    ELSE IF WxidProbe(r) # {} THEN WxidProbe(r)
    ELSE IF LastResort(r) THEN {r}
    ELSE IF NeedsCompletion(r) /\ Exists(CompletePath(r)) THEN {CompletePath(r)}
    ELSE {NotFound}

RInit ==
    /\ root \in Roots
    /\ \E fav \in FavoritesTrees, fst \in FileStorageTrees, wcf \in WeChatFilesTrees,
          dat \in DataTrees, wx \in WxidTrees, rf \in RootFiles, there \in BOOLEAN :
          fs = IF there THEN {RootW} \cup fav \cup fst \cup wcf \cup dat \cup wx \cup rf
               ELSE {}
    /\ rpc = "start"
    /\ result = NotFound

\* parser = WeChatParser(cache_path): the path resolution of its constructor
Resolve ==
    /\ rpc = "start"
    /\ \E p \in FindFavoritesPath(root) : result' = p
    /\ rpc' = "done"
    /\ UNCHANGED <<fs, root, dvars, tvars, avars, xvars>>


(***************************************************************************)
(* Discovery: the files and the database                                   *)
(***************************************************************************)
\* Python's None is the empty tuple and a present value v is <<v>>, for the
\* values that may be None (a NULL column, a sort key, a missing dict key)
None == <<>>
Some(v) == <<v>>
NoDb == <<>>

\* modification times (os.path.getmtime): an older and a newer one
MTimes == {1, 2}

\* at most this many files are in the directory
MaxListed == 3
\* _find_media_files runs at most this many times on one instance
MaxScans == 2

s1Mp4 == <<"1",".","m","p","4">>
s1ThJpg == <<"1","_","t","h",".","j","p","g">>
s2ThGif == <<"2","_","t","h",".","g","i","f">>
s12Png == <<"1","2",".","P","N","G">>
s7Txt == <<"7",".","t","x","t">>
\* the names a file of the directory can have, in one listing order
FilePool == <<s1Mp4, s1ThJpg, s2ThGif, s12Png, s7Txt>>

\* every directory content: at most MaxListed files of the pool, listed in
\* pool order or in the reverse order, each with a modification time
RECURSIVE Reverse(_)
Reverse(s) == IF s = <<>> THEN <<>> ELSE Reverse(Tail(s)) \o <<Head(s)>>
RECURSIVE Pick(_, _)
Pick(s, keep) ==
    IF s = <<>> THEN <<>>
    ELSE (IF Head(s) \in keep THEN <<Head(s)>> ELSE <<>>) \o Pick(Tail(s), keep)
PoolNames == { FilePool[i] : i \in DOMAIN FilePool }
ListingOf(keep, rev, mt) ==
    LET order == IF rev THEN Reverse(Pick(FilePool, keep)) ELSE Pick(FilePool, keep)
    IN  [i \in 1..Len(order) |-> [name |-> order[i], mtime |-> mt[order[i]]]]

ListedNames(l) == { l[i].name : i \in DOMAIN l }
FileExists(l, name) == name \in ListedNames(l)
MTimeOf(l, name) == l[CHOOSE i \in DOMAIN l : l[i].name = name].mtime

\* the query templates of tables_to_try, in order: table, identifier column,
\* third selected column (None: two columns only), ORDER BY column
Templates ==
    << [table |-> "FavoritesItem", id |-> "localId", key |-> Some("createTime"), by |-> "createTime"],
       [table |-> "FavoritesItem", id |-> "localId", key |-> Some("updateTime"), by |-> "updateTime"],
       [table |-> "FavoritesItem", id |-> "localId", key |-> Some("seq"), by |-> "seq"],
       [table |-> "FavoritesItem", id |-> "localId", key |-> Some("id"), by |-> "id"],
       [table |-> "favorites", id |-> "itemId", key |-> Some("createTime"), by |-> "createTime"],
       [table |-> "favoriteItem", id |-> "id", key |-> Some("createTime"), by |-> "createTime"],
       [table |-> "FavoritesItem", id |-> "localId", key |-> None, by |-> "localId"],
       [table |-> "favorites", id |-> "itemId", key |-> None, by |-> "itemId"],
       [table |-> "favoriteItem", id |-> "id", key |-> None, by |-> "id"] >>

\* the tables a favorites database may hold: a name, its columns and its rows
\* in rowid order; a column value v is Some(v) and NULL is None
ItemsByCreateTime ==
    [table |-> "FavoritesItem", cols |-> {"localId", "fileName", "createTime"},
     rows |-> << [localId |-> Some(1), fileName |-> None, createTime |-> Some(20)],
                 [localId |-> Some(12), fileName |-> Some(<<"x">>), createTime |-> Some(10)] >>]
FavoritesById ==
    [table |-> "favorites", cols |-> {"itemId", "fileName"},
     rows |-> << [itemId |-> Some(2), fileName |-> None],
                 [itemId |-> Some(1), fileName |-> Some(<<"y",".","j","p","g">>)] >>]
ItemsByUpdateTime ==
    [table |-> "FavoritesItem", cols |-> {"localId", "fileName", "updateTime"},
     rows |-> << [localId |-> Some(7), fileName |-> None, updateTime |-> Some(5)] >>]

\* the databases a favorites folder may come with: its tables, or a file that
\* is no SQLite database although it has the name of one
Database(tables) == [malformed |-> FALSE, tables |-> tables]
Malformed == [malformed |-> TRUE, tables |-> <<>>]
Databases ==
    { NoDb, Malformed,
      Database(<<ItemsByCreateTime>>), Database(<<FavoritesById>>),
      Database(<<ItemsByUpdateTime>>),
      Database(<<ItemsByUpdateTime, FavoritesById>>) }


(***************************************************************************)
(* Discovery: helpers                                                      *)
(***************************************************************************)
Digits == <<"0","1","2","3","4","5","6","7","8","9">>
IsDigit(c) == \E i \in DOMAIN Digits : Digits[i] = c
DigitVal(c) == (CHOOSE i \in DOMAIN Digits : Digits[i] = c) - 1

\* str(n) for a natural number
RECURSIVE Str(_)
Str(n) == IF n < 10 THEN <<Digits[n + 1]>> ELSE Str(n \div 10) \o <<Digits[(n % 10) + 1]>>

\* int(s) for a string of digits
RECURSIVE ToInt(_)
ToInt(s) == IF s = <<>> THEN 0 ELSE 10 * ToInt(SubSeq(s, 1, Len(s) - 1)) + DigitVal(s[Len(s)])

\* os.path.splitext(name): <<stem, extension with its dot>>; a name whose only
\* dots are leading ones has no extension
SplitExt(name) ==
    LET dots == { i \in DOMAIN name : name[i] = "." }
        d == IF dots = {} THEN 0 ELSE CHOOSE i \in dots : \A j \in dots : j <= i
    IN  IF d > 0 /\ \E j \in 1..(d - 1) : name[j] # "."
        THEN <<SubSeq(name, 1, d - 1), SubSeq(name, d, Len(name))>>
        ELSE <<name, <<>>>>

\* s.replace(p, ''): every non-overlapping occurrence, left to right
RECURSIVE Remove(_, _)
Remove(s, p) ==
    IF s = <<>> THEN <<>>
    ELSE IF StartsWith(s, p) THEN Remove(SubSeq(s, Len(p) + 1, Len(s)), p)
    ELSE <<Head(s)>> \o Remove(Tail(s), p)

\* a < b for two sort keys, each a pair of numbers, as Python compares tuples
KeyLess(a, b) == a[1] < b[1] \/ (a[1] = b[1] /\ a[2] < b[2])
\* list.sort(key=...): a stable sort of s, keys[i] being the key of s[i]
StableSort(s, keys) ==
    LET n == Len(s)
        rank(i) == Cardinality({ j \in 1..n : KeyLess(keys[j], keys[i])
                                             \/ (~KeyLess(keys[i], keys[j]) /\ j < i) }) + 1
    IN  [k \in 1..n |-> s[CHOOSE i \in 1..n : rank(i) = k]]

sDot == <<".">>
MediaExtensions ==
    { <<".","j","p","g">>, <<".","j","p","e","g">>, <<".","p","n","g">>,
      <<".","g","i","f">>, <<".","b","m","p">>, <<".","w","e","b","p">>,
      <<".","m","p","4">>, <<".","m","o","v">>, <<".","a","v","i">>,
      <<".","m","k","v">>, <<".","w","m","v">>, <<".","f","l","v">> }
VideoExtensions ==
    { <<".","m","p","4">>, <<".","m","o","v">>, <<".","a","v","i">>,
      <<".","m","k","v">>, <<".","w","m","v">>, <<".","f","l","v">> }
ThumbImageExts == { <<"j","p","g">>, <<"j","p","e","g">>, <<"p","n","g">> }
s_th == <<"_","t","h">>
s_thumb == <<"_","t","h","u","m","b">>
s_thumbnail == <<"_","t","h","u","m","b","n","a","i","l">>
\* the five thumbnail_patterns: a marker followed by "." and jpg, jpeg or png,
\* at the end of the lower-cased name
ThumbMarkers ==
    { s_th, s_thumb, s_thumbnail,
      <<".","m","p","4","_","t","h">>, <<".","m","o","v","_","t","h">> }

\* WeChatParser._is_video_thumbnail(filename, file_dir), file_dir holding l
IsVideoThumbnail(filename, l) ==
    LET filename_lower == LowerStr(filename)
        base_name == SplitExt(filename)[1]
        video_base == Remove(Remove(base_name, s_th), s_thumb)
    IN  \/ \E m \in ThumbMarkers, e \in ThumbImageExts :
              EndsWith(filename_lower, m \o sDot \o e)
        \/ /\ EndsWith(base_name, s_th) \/ EndsWith(base_name, s_thumb)
           /\ \E ext \in VideoExtensions : FileExists(l, video_base \o ext)

\* WeChatParser._find_file_by_id(file_id): the file favorites_path/<id> if it
\* exists, else the first file of the walk whose name contains str(file_id)
\* (a name equal to the id up to its extension contains it too); None if none.
\* The modelled directory has no File, Images, Videos or Media subfolder.
FindFileById(file_id, l) ==
    IF FileExists(l, Str(file_id)) THEN Str(file_id)
    ELSE IF \E i \in DOMAIN l : Contains(l[i].name, Str(file_id))
              \/ SplitExt(l[i].name)[1] = Str(file_id)
         THEN l[CHOOSE i \in DOMAIN l :
                  /\ Contains(l[i].name, Str(file_id)) \/ SplitExt(l[i].name)[1] = Str(file_id)
                  /\ \A j \in 1..(i - 1) :
                        ~(Contains(l[j].name, Str(file_id))
                          \/ SplitExt(l[j].name)[1] = Str(file_id))].name
         ELSE None


(***************************************************************************)
(* WeChatParser._find_media_files                                          *)
(***************************************************************************)
\* ORDER BY column ASC: the sort key of a column value, SQLite putting NULL
\* before every value
ColKey(x) == IF x = None THEN <<0, 0>> ELSE <<1, x[1]>>

\* the exceptions of the database branch, and what its two handlers catch
OperationalError == "sqlite3.OperationalError"
DatabaseError == "sqlite3.DatabaseError"
\* except sqlite3.OperationalError as e: (around one query)
CaughtByQuery(e) == e = OperationalError
\* a handler that lets everything but OperationalError pass, which the code
\* does not have
CaughtOnlyOperational(e) == e = OperationalError
\* except Exception as e: (around the whole database branch)
CaughtByStore(e) == TRUE

\* cursor.execute("SELECT * FROM sqlite_master WHERE type='table'"): the
\* exception it raises (file is not a database), None when it returns
Introspect(d) == IF d.malformed THEN Some(DatabaseError) ELSE None

\* the table of d a query on the table name reads (<<>>: no such table)
TableNamed(d, name) == SelectSeq(d.tables, LAMBDA tb : tb.table = name)

\* cursor.execute(query); cursor.fetchall(): the rows as (item_id, file_name,
\* sort_key) per row_parser; ok is FALSE for sqlite3.OperationalError (no such
\* table, no such column)
OrderBy(rows, by) == StableSort(rows, [i \in DOMAIN rows |-> ColKey(rows[i][by])])
\* row_parser applied to the fetched rows
ParseRows(sorted, t) ==
    [i \in 1..Len(sorted) |->
        [item_id |-> sorted[i][t.id][1],
         file_name |-> sorted[i].fileName,
         sort_key |-> IF t.key = None THEN None ELSE sorted[i][t.key[1]]]]
RunQuery(d, t) ==
    IF /\ TableNamed(d, t.table) # <<>>
       /\ {t.id, "fileName", t.by} \subseteq TableNamed(d, t.table)[1].cols
       /\ t.key = None \/ t.key[1] \in TableNamed(d, t.table)[1].cols
    THEN [ok |-> TRUE,
          rows |-> ParseRows(OrderBy(TableNamed(d, t.table)[1].rows, t.by), t)]
    ELSE [ok |-> FALSE, rows |-> <<>>]

sfile_ == <<"f","i","l","e","_">>
\* the entries one query's rows give: a row whose id resolves to no file is skipped
RECURSIVE RowEntries(_, _)
RowEntries(rows, l) ==
    IF rows = <<>> THEN <<>>
    ELSE LET row == Head(rows)
             file_path == FindFileById(row.item_id, l)
         IN  (IF file_path # None
              THEN << [id |-> Some(row.item_id),
                       name |-> IF row.file_name # None /\ row.file_name[1] # <<>>
                                THEN row.file_name[1]
                                ELSE sfile_ \o Str(row.item_id),
                       path |-> file_path,
                       sort_key |-> row.sort_key,
                       mtime |-> None] >>
              ELSE <<>>) \o RowEntries(Tail(rows), l)

\* a loop that stops at the first query that returns a row, whether or not a
\* row resolves to a file, which the code does not do
RECURSIVE StopAtFirstRows(_, _, _)
StopAtFirstRows(k, d, l) ==
    IF k > Len(Templates) THEN <<0, <<>>, k - 1>>
    ELSE LET q == RunQuery(d, Templates[k])
         IN  IF q.ok /\ q.rows # <<>> THEN <<k, RowEntries(q.rows, l), k>>
             ELSE StopAtFirstRows(k + 1, d, l)

\* for query, row_parser in tables_to_try: ... if media_files: break
\* <<index of the winning template, its entries, the number of queries
\* executed>>; the index is 0 and the entries are empty when no query wins.
\* A query that raises OperationalError is passed over by its handler.
RECURSIVE TryTemplates(_, _, _)
\* one pass of the loop body for template k, q being what its query gave and
\* found the entries appended to media_files
TryTemplate(k, q, found, d, l) ==
    IF q.ok \/ CaughtByQuery(OperationalError)
    THEN IF found # <<>> THEN <<k, found, k>> ELSE TryTemplates(k + 1, d, l)
    ELSE <<0, <<>>, k>>
\* the entries the rows of a query give, none when the query failed
Found(q, l) == IF q.ok THEN RowEntries(q.rows, l) ELSE <<>>
TryTemplates(k, d, l) ==
    IF k > Len(Templates) THEN <<0, <<>>, k - 1>>
    ELSE TryTemplate(k, RunQuery(d, Templates[k]),
                     Found(RunQuery(d, Templates[k]), l), d, l)

\* the database branch: the entries it leaves in media_files, the template
\* they came from, the number of queries executed and the exception that
\* escapes the branch (None: none)
Tried(tried) ==
    [files |-> tried[2], template |-> tried[1], queries |-> tried[3], raised |-> None]
FromStore(d, l) ==
    IF d = NoDb
    THEN [files |-> <<>>, template |-> 0, queries |-> 0, raised |-> None]
    ELSE IF Introspect(d) # None
    THEN [files |-> <<>>, template |-> 0, queries |-> 0,
          raised |-> IF CaughtByStore(Introspect(d)[1]) THEN None ELSE Introspect(d)]
    ELSE Tried(TryTemplates(1, d, l))

\* the walk keeps a file with a media extension that is no video thumbnail
Walked(l) ==
    SelectSeq(l, LAMBDA f : /\ LowerStr(SplitExt(f.name)[2]) \in MediaExtensions
                            /\ ~IsVideoThumbnail(f.name, l))

\* the walk order kept as it is, which the code does not do
KeepWalkOrder(media) == media
\* temp_files.sort(key=lambda x: x['mtime'])
SortByMtime(media) == StableSort(media, [i \in DOMAIN media |-> <<media[i].mtime, 0>>])

\* the file-system branch: walk, sort by modification time, standard format
FromWalk(l) ==
    LET temp_files == SortByMtime(Walked(l))
    IN  [i \in 1..Len(temp_files) |->
            [id |-> <<"md5", temp_files[i].name>>,
             name |-> temp_files[i].name,
             path |-> temp_files[i].name,
             sort_key |-> Some(temp_files[i].mtime),
             mtime |-> None]]

\* extract_number_from_filename: the first run of digits, 0 without one
ExtractNumber(name) ==
    LET starts == { i \in DOMAIN name : IsDigit(name[i]) }
    IN  IF starts = {} THEN 0
        ELSE LET a == CHOOSE i \in starts : \A j \in starts : i <= j
                 b == CHOOSE i \in a..Len(name) :
                         /\ \A j \in a..i : IsDigit(name[j])
                         /\ i = Len(name) \/ ~IsDigit(name[i + 1])
             IN  ToInt(SubSeq(name, a, b))

\* WeChatParser._apply_smart_sorting(media_files)
ApplySmartSorting(media, l) ==
    IF media = <<>> THEN media
    ELSE IF media[1].sort_key # None THEN media
    ELSE LET timed == [i \in 1..Len(media) |->
                          IF media[i].mtime = None
                          THEN [media[i] EXCEPT !.mtime =
                                   Some(IF FileExists(l, media[i].path)
                                        THEN MTimeOf(l, media[i].path) ELSE 0)]
                          ELSE media[i]]
             by_time == StableSort(timed, [i \in DOMAIN timed |-> <<timed[i].mtime[1], 0>>])
             mtimes == { by_time[i].mtime[1] : i \in DOMAIN by_time }
         IN  \* len(set(mtimes)) < len(mtimes) * 0.8
             IF 10 * Cardinality(mtimes) < 8 * Len(by_time)
             THEN StableSort(by_time,
                     [i \in DOMAIN by_time |->
                         <<by_time[i].mtime[1], ExtractNumber(by_time[i].name)>>])
             ELSE by_time

\* _find_media_files(): the list it returns, the branch that produced it, and
\* the exception it raises instead of returning (None: it returns)
AfterStore(store, l) ==
    [files |-> IF store.raised # None THEN <<>>
               ELSE ApplySmartSorting(IF store.files # <<>> THEN store.files
                                      ELSE FromWalk(l), l),
     walk |-> store.files = <<>>,
     template |-> store.template,
     queries |-> store.queries,
     raised |-> store.raised]
FindMediaFiles(l, d) == AfterStore(FromStore(d, l), l)


(***************************************************************************)
(* The discovery calls of one WeChatParser instance                        *)
(***************************************************************************)
\* self.media_files = self._find_media_files(): an exception of the call
\* leaves self.media_files as it was
\* (found is what the call gave)
Rescan(found) ==
    /\ scans < MaxScans
    /\ scans' = scans + 1
    /\ from_walk' = found.walk
    /\ winner' = found.template
    /\ executed' = found.queries
    /\ raised' = found.raised
    /\ first_list' = IF scans = 0 THEN Some(found.files) ELSE first_list
    /\ scanned' = listing

\* get_total_files(): if self.media_files: return len(self.media_files)
GetTotalFiles ==
    /\ rpc = "parser"
    /\ IF media_files # <<>>
       THEN UNCHANGED <<media_files, scans, from_walk, first_list, scanned, raised,
                        winner, executed>>
       ELSE \E found \in {FindMediaFiles(listing, db)} :
               /\ Rescan(found)
               /\ media_files' = IF found.raised = None THEN found.files
                                 ELSE media_files
    /\ UNCHANGED <<listing, db, strategy, yielded, touched, rvars, xvars, tvars, avars>>

\* the strategy get_sorting_strategy_info() names for a list
StrategyOf(media) ==
    IF media = <<>> THEN "NoFiles"
    ELSE IF \E i \in DOMAIN media : media[i].sort_key # None THEN "StoreOrder"
    ELSE IF \E i \in DOMAIN media : media[i].mtime # None THEN "TimeOrder"
    ELSE "NoOrder"

\* get_sorting_strategy_info()
GetSortingStrategyInfo ==
    /\ rpc = "parser"
    /\ IF media_files # <<>>
       THEN /\ UNCHANGED <<media_files, scans, from_walk, first_list, scanned, raised,
                           winner, executed>>
            /\ strategy' = StrategyOf(media_files)
       ELSE \E found \in {FindMediaFiles(listing, db)} :
               /\ Rescan(found)
               /\ IF found.raised = None
                  THEN /\ media_files' = found.files
                       /\ strategy' = StrategyOf(found.files)
                  ELSE UNCHANGED <<media_files, strategy>>
    /\ UNCHANGED <<listing, db, yielded, touched, rvars, xvars, tvars, avars>>

\* parse_favorites gives a yielded entry a name that ends with the extension
\* of its file (every modelled file has an extension)
WithExtension(e) ==
    LET file_ext == LowerStr(SplitExt(e.path)[2])
    IN  IF EndsWith(LowerStr(e.name), file_ext) THEN e
        ELSE [e EXCEPT !.name = e.name \o file_ext]

\* the list after the loop of parse_favorites: an entry whose file exists has
\* been renamed in place
Named(media) ==
    [i \in 1..Len(media) |->
        IF FileExists(listing, media[i].path) THEN WithExtension(media[i])
        ELSE media[i]]

\* parse_favorites(): the entries whose file still exists, renamed in place
ParseFavorites ==
    /\ rpc = "parser"
    /\ \E found \in {FindMediaFiles(listing, db)} :
          \E named \in {Named(IF media_files # <<>> THEN media_files ELSE found.files)} :
              /\ IF media_files # <<>>
                 THEN UNCHANGED <<scans, from_walk, first_list, scanned, raised, winner,
                                  executed>>
                 ELSE Rescan(found)
              /\ IF media_files = <<>> /\ found.raised # None
                 THEN UNCHANGED <<media_files, yielded>>
                 ELSE /\ media_files' = named
                      /\ yielded' = Some(SelectSeq(named, LAMBDA e : FileExists(listing, e.path)))
    /\ UNCHANGED <<listing, db, strategy, touched, rvars, xvars, tvars, avars>>

\* the directory changes while the instance lives: a file is deleted, or a
\* new file (newest modification time) appears at the end of the listing
Touch ==
    /\ rpc = "parser"
    /\ ~touched
    /\ scans > 0
    /\ \/ \E i \in DOMAIN listing :
             listing' = SubSeq(listing, 1, i - 1) \o SubSeq(listing, i + 1, Len(listing))
       \/ /\ Len(listing) < MaxListed
          /\ \E n \in PoolNames \ ListedNames(listing) :
                listing' = Append(listing, [name |-> n, mtime |-> 2])
    /\ touched' = TRUE
    /\ UNCHANGED <<db, media_files, scans, first_list, from_walk, scanned, strategy,
                   yielded, raised, winner, executed, rvars, xvars, tvars, avars>>

DInit ==
    /\ \E keep \in { k \in SUBSET PoolNames : Cardinality(k) <= MaxListed },
          rev \in BOOLEAN :
          \E mt \in [keep -> MTimes] : listing = ListingOf(keep, rev, mt)
    /\ db \in Databases
    /\ media_files = <<>>
    /\ scans = 0
    /\ first_list = None
    /\ from_walk = FALSE
    /\ scanned = <<>>
    /\ strategy = "unset"
    /\ yielded = None
    /\ touched = FALSE
    /\ raised = None /\ winner = 0 /\ executed = 0
    /\ fs = {} /\ root = RootW /\ rpc = "parser" /\ result = NotFound

DNext == GetTotalFiles \/ GetSortingStrategyInfo \/ ParseFavorites \/ Touch

(***************************************************************************)
(* Transfer: names, paths and bytes                                        *)
(***************************************************************************)
\* a run copies at most this many entries
MaxFiles == 10
\* at most this many entries were already written to the destination folder
\* by an earlier run over the same list
MaxPrior == 1

sF == <<"f">>
sJpg == <<".","j","p","g">>
sUnderscore == <<"_">>
sTestWrite == <<"t","e","s","t","_","w","r","i","t","e",".","t","x","t">>
\* the bytes of a file: <<>> is a file of size zero
OldBytes == <<0>>
BytesOf(k) == <<k>>

\* the name of the k-th entry; two entries of different subdirectories may
\* carry the same file name
EntryName(k, shared) == IF shared /\ k <= 2 THEN sAJpg ELSE sF \o Str(k) \o sJpg
\* the path of the k-th entry's file: each file lies in a directory of its own,
\* below the extraction directory of an archive or below the Favorites folder
SourcePath(k, arch) ==
    [dir |-> IF arch THEN "archive_extract_" ELSE "Favorites", file |-> Str(k)]
\* os.path.join(self.safe_temp_dir, file_name)
SafePath(file_name) == [dir |-> "safe_archive_", file |-> file_name]
\* "archive_extract_" in file_path
IsArchivePath(path) == path.dir = "archive_extract_"

\* str.zfill(width)
RECURSIVE ZFill(_, _)
ZFill(s, width) == IF Len(s) >= width THEN s ELSE ZFill(<<"0">> \o s, width)

\* sequence_number = str(i + 1).zfill(num_digits), num_digits = len(str(total_files))
SequenceNumber(i, total_files) == ZFill(Str(i + 1), Len(Str(total_files)))

\* target_filename = f"{sequence_number}_{file_name}"
TargetFilename(i, total_files, file_name) ==
    SequenceNumber(i, total_files) \o sUnderscore \o file_name

\* WeChatParser._get_safe_filename: re.sub(r'[\\/*?:"<>|]', '_', filename); an
\* empty name or one starting with "." becomes file_<md5[:8]><ext>, the digest
\* standing as one opaque token
IllegalChars == {"\\", "/", "*", "?", ":", "\"", "<", ">", "|"}
GetSafeFilename(filename) ==
    LET safe_name == [j \in 1..Len(filename) |->
                        IF filename[j] \in IllegalChars THEN "_" ELSE filename[j]]
    IN  IF safe_name = <<>> \/ safe_name[1] = "."
        THEN sfile_ \o <<"md5">> \o SplitExt(filename)[2]
        ELSE safe_name

\* while os.path.exists(target_path): prefixed_name = f"{sequence}_{base}_{counter}{ext}"
RECURSIVE FreeName(_, _, _, _, _)
FreeName(folder, sequence, base_name, ext, counter) ==
    LET prefixed_name == sequence \o sUnderscore \o base_name \o sUnderscore
                         \o Str(counter) \o ext
    IN  IF prefixed_name \in DOMAIN folder
        THEN FreeName(folder, sequence, base_name, ext, counter + 1)
        ELSE prefixed_name

\* the name WeChatParser.save_file_with_sequence writes file_name under
SequenceTarget(folder, sequence, file_name) ==
    LET safe_name == GetSafeFilename(file_name)
        prefixed_name == sequence \o sUnderscore \o safe_name
    IN  IF prefixed_name \in DOMAIN folder
        THEN FreeName(folder, sequence, SplitExt(safe_name)[1], SplitExt(safe_name)[2], 1)
        ELSE prefixed_name

\* a folder after data is written to name (open(name, 'wb') replaces a file)
Written(folder, name, data) ==
    [f \in DOMAIN folder \cup {name} |-> IF f = name THEN data ELSE folder[f]]
\* a folder without the files of names
Without(folder, names) == [f \in DOMAIN folder \ names |-> folder[f]]

\* progress = int((i + 1) / total_files * scale): for the list lengths a run of
\* the model has, the floating-point product truncates to this quotient
Percent(i, total_files, scale) == ((i + 1) * scale) \div total_files

\* a media file of the configured cache path that is no entry of the run
OtherCacheFile == [dir |-> "Favorites", file |-> <<"o">>]

\* the handles left as they are, which the code does not do
LeaveHandles(open) == open
\* for handle in file_handles: handle.close(); file_handles = []
CloseHandles(open) == FALSE

(***************************************************************************)
(* SaveThread: construction and run()                                      *)
(***************************************************************************)
\* SaveThread(files, save_folder, archive_parser): the lists, sources and
\* destination folders a run can start from.  One entry at most is faulty: its
\* source file is gone, or has size zero.
TInit ==
    \E n \in 1..MaxFiles, arch \in BOOLEAN, shared \in BOOLEAN, bad \in 0..MaxFiles,
       how \in {"gone", "empty"}, prior \in SUBSET (1..MaxPrior), tmp \in BOOLEAN,
       other \in BOOLEAN, auto \in BOOLEAN :
        /\ bad <= n /\ (bad = 0 => how = "gone")
        /\ shared => n >= 2
        /\ tmp => arch
        /\ prior \subseteq 1..n
        /\ input = [k \in 1..n |-> [name |-> EntryName(k, shared),
                                    path |-> SourcePath(k, arch), pos |-> k]]
        /\ files = input
        /\ is_archive = IsArchivePath(SourcePath(1, arch))
        /\ disk = [q \in { SourcePath(k, arch) : k \in { j \in 1..n : j # bad \/ how # "gone" } }
                          \cup (IF other THEN {OtherCacheFile} ELSE {})
                     |-> IF q = OtherCacheFile THEN OldBytes
                         ELSE LET k == CHOOSE j \in 1..n : SourcePath(j, arch) = q
                              IN  IF k = bad THEN <<>> ELSE BytesOf(k)]
        /\ save_folder = [f \in { TargetFilename(k - 1, n, EntryName(k, shared)) : k \in prior }
                            |-> OldBytes]
        /\ safe_temp_dir = tmp
        /\ file_handles = arch
        /\ tpc = "Idle" /\ step = "run" /\ saver = "none" /\ idx = 0
        /\ new_files = <<>> /\ saved_count = 0 /\ failed_count = 0
        /\ cleanups = 0 /\ finished = 0 /\ errors = 0
        /\ trace = <<"Idle">>
        /\ out_name = [k \in 1..n |-> <<>>]
        /\ overwritten = FALSE /\ aborted = FALSE
        /\ progress = <<>> /\ auto_clear = auto /\ deleted = {}

\* the run moves to another state
Enter(state) == tpc' = state /\ trace' = Append(trace, state)

\* run(): the branch taken
StartRun ==
    /\ step = "run"
    /\ Enter("Preparing")
    /\ step' = IF is_archive /\ safe_temp_dir THEN "stage"
               ELSE IF is_archive THEN "setup" ELSE "init"
    /\ saver' = IF is_archive THEN "archive" ELSE "parser"
    /\ UNCHANGED <<rvars, xvars, dvars, avars, auto_clear, deleted, progress,
                   input, is_archive, files, disk, save_folder, safe_temp_dir,
                   file_handles, idx, new_files, saved_count, failed_count, cleanups,
                   finished, errors, out_name, overwritten, aborted>>

\* copy_to_safe_temp_dir: one pass of its loop
StageStep ==
    /\ step = "stage" /\ idx < Len(files)
    /\ LET file_info == files[idx + 1]
           old_path == file_info.path
           new_path == SafePath(file_info.name)
       IN  IF old_path \notin DOMAIN disk
           THEN UNCHANGED <<disk, new_files>>
           ELSE /\ disk' = Written(disk, new_path, disk[old_path])
                /\ new_files' = IF disk[old_path] # <<>>
                                THEN Append(new_files, [file_info EXCEPT !.path = new_path])
                                ELSE new_files
    /\ progress' = Append(progress, Percent(idx, Len(files), 50))
    /\ idx' = idx + 1
    /\ UNCHANGED <<rvars, xvars, dvars, avars, auto_clear, deleted,
                   input, is_archive, files, save_folder, safe_temp_dir, file_handles,
                   tpc, step, saver, saved_count, failed_count, cleanups, finished,
                   errors, trace, out_name, overwritten, aborted>>

\* copy_to_safe_temp_dir: if copied_count > 0: self.files = new_files
StageDone ==
    /\ step = "stage" /\ idx = Len(files)
    /\ files' = IF Len(new_files) > 0 THEN new_files ELSE files
    /\ step' = "setup"
    /\ idx' = 0
    /\ UNCHANGED <<rvars, xvars, dvars, avars, auto_clear, deleted, progress,
                   input, is_archive, disk, save_folder, safe_temp_dir, file_handles,
                   tpc, saver, new_files, saved_count, failed_count, cleanups, finished,
                   errors, trace, out_name, overwritten, aborted>>

\* parser = WeChatParser(self.cache_path) returns
ParserReady ==
    /\ step = "init"
    /\ Enter("Copying")
    /\ step' = "copy"
    /\ idx' = 0 /\ saved_count' = 0 /\ failed_count' = 0
    /\ UNCHANGED <<rvars, xvars, dvars, avars, auto_clear, deleted, progress,
                   input, is_archive, files, disk, save_folder, safe_temp_dir,
                   file_handles, saver, new_files, cleanups, finished, errors,
                   out_name, overwritten, aborted>>

\* WeChatParser(self.cache_path) raises: except Exception: self.save_files_directly()
ParserFailed ==
    /\ step = "init"
    /\ step' = "setup"
    /\ saver' = "direct"
    /\ UNCHANGED <<rvars, xvars, dvars, avars, auto_clear, deleted, progress,
                   input, is_archive, files, disk, save_folder, safe_temp_dir,
                   file_handles, tpc, idx, new_files, saved_count, failed_count,
                   cleanups, finished, errors, trace, out_name, overwritten, aborted>>

\* save_files_directly / save_files_with_archive_parser: os.makedirs succeeds,
\* and so does the write probe of save_files_directly (test_write.txt written
\* and removed)
SetupOk ==
    /\ step = "setup"
    /\ save_folder' = IF saver = "direct" THEN Without(save_folder, {sTestWrite})
                      ELSE save_folder
    /\ Enter("Copying")
    /\ step' = "copy"
    /\ idx' = 0 /\ saved_count' = 0 /\ failed_count' = 0
    /\ UNCHANGED <<rvars, xvars, dvars, avars, auto_clear, deleted, progress,
                   input, is_archive, files, disk, safe_temp_dir, file_handles, saver,
                   new_files, cleanups, finished, errors, out_name, overwritten, aborted>>

\* os.makedirs or the write probe fails: error_occurred is emitted and the
\* save function returns
SetupFailed ==
    /\ step = "setup"
    /\ errors' = errors + 1
    /\ Enter("Cleanup")
    /\ step' = "tail"
    /\ UNCHANGED <<rvars, xvars, dvars, avars, auto_clear, deleted, progress,
                   input, is_archive, files, disk, save_folder, safe_temp_dir,
                   file_handles, saver, idx, new_files, saved_count, failed_count,
                   cleanups, finished, out_name, overwritten, aborted>>

\* save_files_with_parser: one pass of its loop, parser.save_file_with_sequence
\* copying the file with shutil.copy2
SaveWithParser ==
    /\ step = "copy" /\ saver = "parser" /\ idx < Len(files)
    /\ LET file_info == files[idx + 1]
           sequence == SequenceNumber(idx, Len(files))
           target == SequenceTarget(save_folder, sequence, file_info.name)
       IN  IF file_info.path \notin DOMAIN disk
           THEN /\ failed_count' = failed_count + 1
                /\ UNCHANGED <<save_folder, saved_count, out_name, overwritten>>
           ELSE /\ save_folder' = Written(save_folder, target, disk[file_info.path])
                /\ overwritten' = (overwritten \/ target \in DOMAIN save_folder)
                /\ out_name' = [out_name EXCEPT ![file_info.pos] = target]
                /\ saved_count' = saved_count + 1
                /\ UNCHANGED failed_count
    /\ progress' = Append(progress, Percent(idx, Len(files), 100))
    /\ idx' = idx + 1
    /\ UNCHANGED <<rvars, xvars, dvars, avars, auto_clear, deleted,
                   input, is_archive, files, disk, safe_temp_dir, file_handles, tpc,
                   step, saver, new_files, cleanups, finished, errors, trace, aborted>>

\* one pass of the loop of save_files_directly and of
\* save_files_with_archive_parser: the bytes are read (through the open handle
\* of the path when one is tracked, else from the file) and written with
\* open(target_path, 'wb'); a target of size zero counts as failed
WriteUnderSequence ==
    /\ step = "copy" /\ idx < Len(files)
    /\ LET file_info == files[idx + 1]
           target == TargetFilename(idx, Len(files), file_info.name)
       IN  IF file_info.path \notin DOMAIN disk
           THEN /\ failed_count' = failed_count + 1
                /\ UNCHANGED <<save_folder, saved_count, out_name, overwritten>>
           ELSE /\ save_folder' = Written(save_folder, target, disk[file_info.path])
                /\ overwritten' = (overwritten \/ target \in DOMAIN save_folder)
                /\ out_name' = [out_name EXCEPT ![file_info.pos] = target]
                /\ IF disk[file_info.path] # <<>>
                   THEN saved_count' = saved_count + 1 /\ UNCHANGED failed_count
                   ELSE failed_count' = failed_count + 1 /\ UNCHANGED saved_count
    /\ progress' = Append(progress, Percent(idx, Len(files), 100))
    /\ idx' = idx + 1
    /\ UNCHANGED <<rvars, xvars, dvars, avars, auto_clear, deleted,
                   input, is_archive, files, disk, safe_temp_dir, file_handles, tpc,
                   step, saver, new_files, cleanups, finished, errors, trace, aborted>>

SaveDirectly == saver = "direct" /\ WriteUnderSequence
SaveWithArchiveParser == saver = "archive" /\ WriteUnderSequence

\* the loop is over: save_files_directly removes the safe directory, and the
\* two functions that write themselves emit error_occurred when a file failed
CopyDone ==
    /\ step = "copy" /\ idx = Len(files)
    /\ IF saver = "direct" /\ safe_temp_dir
       THEN disk' = Without(disk, { q \in DOMAIN disk : q.dir = "safe_archive_" })
       ELSE UNCHANGED disk
    /\ errors' = IF saver # "parser" /\ failed_count > 0 THEN errors + 1 ELSE errors
    /\ Enter("Cleanup")
    /\ step' = "tail"
    /\ UNCHANGED <<rvars, xvars, dvars, avars, auto_clear, deleted, progress,
                   input, is_archive, files, save_folder, safe_temp_dir, file_handles,
                   saver, idx, new_files, saved_count, failed_count, cleanups, finished,
                   out_name, overwritten, aborted>>

\* an unexpected exception in save_files_with_parser: run() catches it and
\* starts over with save_files_directly
ParserAbort ==
    /\ ~aborted
    /\ step = "copy" /\ saver = "parser"
    /\ aborted' = TRUE
    /\ Enter("Preparing")
    /\ step' = "setup"
    /\ saver' = "direct"
    /\ UNCHANGED <<rvars, xvars, dvars, avars, auto_clear, deleted, progress,
                   input, is_archive, files, disk, save_folder, safe_temp_dir,
                   file_handles, idx, new_files, saved_count, failed_count, cleanups,
                   finished, errors, out_name, overwritten>>

\* an unexpected exception anywhere else: the handler of run() emits
\* error_occurred and goes on to release what the run holds
Abort ==
    /\ ~aborted
    /\ step \in {"stage", "setup", "copy"} /\ ~(step = "copy" /\ saver = "parser")
    /\ aborted' = TRUE
    /\ errors' = errors + 1
    /\ Enter("Cleanup")
    /\ step' = "tail"
    /\ UNCHANGED <<rvars, xvars, dvars, avars, auto_clear, deleted, progress,
                   input, is_archive, files, disk, save_folder, safe_temp_dir,
                   file_handles, saver, idx, new_files, saved_count, failed_count,
                   cleanups, finished, out_name, overwritten>>

\* the handles of the archive parser are closed, then cleanup_temp_dir()
Release ==
    /\ step = "tail"
    /\ file_handles' = IF is_archive THEN CloseHandles(file_handles) ELSE file_handles
    /\ disk' = IF safe_temp_dir
               THEN Without(disk, { q \in DOMAIN disk : q.dir = "safe_archive_" })
               ELSE disk
    /\ safe_temp_dir' = FALSE
    /\ cleanups' = cleanups + 1
    /\ step' = "emit"
    /\ UNCHANGED <<rvars, xvars, dvars, avars, auto_clear, deleted, progress,
                   input, is_archive, files, save_folder, tpc, saver, idx, new_files,
                   saved_count, failed_count, finished, errors, trace, out_name,
                   overwritten, aborted>>

\* self.finished.emit()
Finish ==
    /\ step = "emit"
    /\ finished' = finished + 1
    /\ Enter("Done")
    /\ step' = "end"
    /\ UNCHANGED <<rvars, xvars, dvars, avars, auto_clear, deleted, progress,
                   input, is_archive, files, disk, save_folder, safe_temp_dir,
                   file_handles, saver, idx, new_files, saved_count, failed_count,
                   cleanups, errors, out_name, overwritten, aborted>>

(***************************************************************************)
(* ArchiveParser: construction, disposal and the registry of directories   *)
(***************************************************************************)
\* ArchiveParser(archive_path) is called at most this many times
MaxParsers == 2

\* the files archive_path may name: whether the path exists, whether its
\* extension is ".zip" (any case), whether its first bytes are PK\x03\x04
Archives ==
    { a \in [exists : BOOLEAN, zip_ext : BOOLEAN, zip_magic : BOOLEAN] :
        ~a.exists => ~a.zip_magic }

\* ArchiveParser._detect_archive_type: 'zip' by extension, else by header
DetectArchiveType(a) ==
    IF a.zip_ext THEN Some("zip")
    ELSE IF a.zip_magic THEN Some("zip")
    ELSE None

\* tempfile.mkdtemp(prefix="archive_extract_", dir=...): the n-th directory the
\* process makes, below the system temp directory or beside archive_parser.py
SystemTemp == "tempfile.gettempdir()"
CurrentDir == "os.path.dirname(__file__)"
ScratchDir(where, n) == [where |-> where, n |-> n]

\* list.remove(x): the list without the first occurrence of x
RemoveFirst(list, x) ==
    IF \E i \in DOMAIN list : list[i] = x
    THEN LET i == CHOOSE j \in DOMAIN list : list[j] = x /\ \A m \in 1..(j - 1) : list[m] # x
         IN  SubSeq(list, 1, i - 1) \o SubSeq(list, i + 1, Len(list))
    ELSE list
Registered == { temp_directories[i] : i \in DOMAIN temp_directories }

\* how the system temp directory behaves in one constructor call
TempBehaviours == {"writable", "mkdtemp fails", "probe fails"}

\* ArchiveParser.__init__(archive_path); probed records whether test_write.txt
\* was written to and removed from the directory the instance keeps
OpenArchive ==
    /\ Len(parsers) < MaxParsers
    /\ Cardinality(created) <= MaxParsers
    /\ swept' = FALSE
    /\ IF ~archive.exists
       THEN /\ opened' = "FileNotFoundError"
            /\ UNCHANGED <<temp_directories, scratch, created, parsers>>
       ELSE IF DetectArchiveType(archive) = None
       THEN /\ opened' = "ValueError"
            /\ UNCHANGED <<temp_directories, scratch, created, parsers>>
       ELSE \E temp \in TempBehaviours, fallback \in BOOLEAN :
              LET n == Cardinality(created)
                  first == IF temp = "mkdtemp fails" THEN <<>>
                           ELSE <<ScratchDir(SystemTemp, n + 1)>>
                  second == IF temp # "writable" /\ fallback
                            THEN <<ScratchDir(CurrentDir, n + Len(first) + 1)>>
                            ELSE <<>>
                  made == first \o second
              IN  /\ temp = "writable" => fallback
                  /\ temp_directories' = temp_directories \o made
                  /\ scratch' = scratch \cup { made[i] : i \in DOMAIN made }
                  /\ created' = created \cup { made[i] : i \in DOMAIN made }
                  /\ IF temp = "writable" \/ fallback
                     THEN /\ parsers' = Append(parsers, [temp_dir |-> made[Len(made)],
                                                         alive |-> TRUE,
                                                         probed |-> temp = "writable"])
                          /\ opened' = "ok"
                     ELSE /\ opened' = "IOError"
                          /\ UNCHANGED parsers
    /\ UNCHANGED <<archive, rvars, xvars, dvars, tvars>>

\* ArchiveParser.__del__ of a constructed instance: the handles are closed and,
\* if its directory still exists, the directory leaves the registry and the disk
Dispose ==
    /\ \E i \in DOMAIN parsers :
          /\ parsers[i].alive
          /\ parsers' = [parsers EXCEPT ![i].alive = FALSE]
          /\ IF parsers[i].temp_dir \in scratch
             THEN /\ temp_directories' = RemoveFirst(temp_directories, parsers[i].temp_dir)
                  /\ scratch' = scratch \ {parsers[i].temp_dir}
             ELSE UNCHANGED <<temp_directories, scratch>>
    /\ swept' = FALSE
    /\ UNCHANGED <<archive, created, opened, rvars, xvars, dvars, tvars>>

\* ArchiveParser.cleanup_all_temp_dirs(): every registered directory is removed
\* from the disk and from the registry
CleanupAllTempDirs ==
    /\ scratch' = scratch \ Registered
    /\ temp_directories' = <<>>
    /\ swept' = FALSE
    /\ UNCHANGED <<archive, created, parsers, opened, rvars, xvars, dvars, tvars>>

\* MainWindow.clear_temp_archives(), called by clear_cache and by closeEvent:
\* the handles are closed and glob(join(tempfile.gettempdir(), pattern)) is
\* removed for the patterns archive_extract_* and safe_archive_*
ClearTempArchives ==
    /\ scratch' = { d \in scratch : d.where # SystemTemp }
    /\ swept' = TRUE
    /\ UNCHANGED <<archive, temp_directories, created, parsers, opened,
                   rvars, xvars, dvars, tvars>>

(***************************************************************************)
(* Archive discovery                                                       *)
(***************************************************************************)
\* at most this many files in one archive
MaxMembers == 2
\* sort_number of a name without a number after an underscore
NoNumber == 999999

sBJpg == <<"b",".","j","p","g">>
sA2Jpg == <<"a","_","2",".","j","p","g">>
sC2Gif == <<"c","_","2",".","g","i","f">>
sA10Png == <<"a","_","1","0",".","P","N","G">>
sZMillionJpg == <<"z","_","1","0","0","0","0","0","0",".","j","p","g">>
sNTxt == <<"n",".","t","x","t">>
\* the file names an archive may hold
MemberNames == {sBJpg, sA2Jpg, sC2Gif, sA10Png, sZMillionJpg, sNTxt, sTestWrite}
\* the contents of an archive: distinct names, in the order os.walk lists them
MemberLists ==
    { m \in UNION { [1..n -> MemberNames] : n \in 0..MaxMembers } :
        \A i, j \in DOMAIN m : m[i] = m[j] => i = j }

\* the positions where re.search(r'_(\d+)', name) can match
TokenStarts(name) ==
    { i \in 1..(Len(name) - 1) : name[i] = "_" /\ IsDigit(name[i + 1]) }
\* number_match is not None
HasToken(name) == TokenStarts(name) # {}
\* int(number_match.group(1)): the leftmost match, its digits taken greedily
SortNumber(name) ==
    IF ~HasToken(name) THEN NoNumber
    ELSE LET i == CHOOSE k \in TokenStarts(name) : \A m \in TokenStarts(name) : k <= m
             e == CHOOSE k \in (i + 1)..Len(name) :
                     /\ \A m \in (i + 1)..k : IsDigit(name[m])
                     /\ (k = Len(name) \/ ~IsDigit(name[k + 1]))
         IN  ToInt(SubSeq(name, i + 1, e))

\* the place of a name among the names of a list, as Python orders strings
NameRank(name, list) == Cardinality({ j \in DOMAIN list : LexLess(list[j].name, name) })

\* the walk of _find_media_files: the media files of the directory, the probe
\* file skipped, each with its sort_number
TempFiles(m, dir) ==
    LET keep == Pick(m, { f \in MemberNames :
                            /\ f # sTestWrite
                            /\ LowerStr(SplitExt(f)[2]) \in MediaExtensions })
    IN  [i \in DOMAIN keep |-> [name |-> keep[i],
                                path |-> [dir |-> dir, name |-> keep[i]],
                                sort_number |-> SortNumber(keep[i])]]
\* temp_files.sort(key=lambda x: (x['sort_number'], x['name']))
SortTempFiles(temp_files) ==
    StableSort(temp_files,
               [i \in DOMAIN temp_files |->
                   <<temp_files[i].sort_number, NameRank(temp_files[i].name, temp_files)>>])
\* the entries made of the sorted files
MediaEntries(sorted) ==
    [i \in DOMAIN sorted |-> [name |-> sorted[i].name,
                              path |-> sorted[i].path,
                              sort_key |-> sorted[i].sort_number]]
\* ArchiveParser._find_media_files() after extract_archive() put m into dir;
\* an extraction that leaves no file besides the probe file gives []
ArchiveFindMediaFiles(m, dir) ==
    IF \A i \in DOMAIN m : m[i] = sTestWrite THEN <<>>
    ELSE MediaEntries(SortTempFiles(TempFiles(m, dir)))

\* ArchiveParser.get_total_files(), the first one of the process, on an
\* instance whose directory exists: the archive is extracted and its media
\* files are listed
ArchiveGetTotalFiles ==
    /\ archive_media = None
    /\ \E i \in DOMAIN parsers, m \in MemberLists :
          /\ parsers[i].alive
          /\ parsers[i].temp_dir \in scratch
          /\ members' = m
          /\ archive_media' = Some(ArchiveFindMediaFiles(m, parsers[i].temp_dir))
    /\ UNCHANGED <<avars, rvars, dvars, tvars, gvars, wvars>>

AInit ==
    /\ archive \in Archives
    /\ temp_directories = <<>> /\ scratch = {} /\ created = {}
    /\ parsers = <<>> /\ opened = "none" /\ swept = FALSE


\* the directories clear_temp_archives removes from the system temp directory
TempPatterns == {"archive_extract_", "safe_archive_"}

\* MainWindow.saving_finished, the slot of the finished signal: with
\* auto_clear_cache set, clear_cache(auto_mode=True) closes the handles, sweeps
\* the temporary directories and removes every media file below the configured
\* cache path; without it, an archive session sweeps the temporary directories
SavingFinished ==
    /\ step = "end"
    /\ step' = "closed"
    /\ LET cache_files == { q \in DOMAIN disk : q.dir = "Favorites" }
           temp_files == { q \in DOMAIN disk : q.dir \in TempPatterns }
       IN  IF auto_clear
           THEN /\ file_handles' = FALSE
                /\ disk' = Without(disk, temp_files \cup cache_files)
                /\ deleted' = cache_files
           ELSE IF is_archive
           THEN /\ file_handles' = FALSE
                /\ disk' = Without(disk, temp_files)
                /\ UNCHANGED deleted
           ELSE UNCHANGED <<file_handles, disk, deleted>>
    /\ UNCHANGED <<rvars, xvars, dvars, avars, auto_clear, progress,
                   input, is_archive, files, save_folder, safe_temp_dir, tpc, saver,
                   idx, new_files, saved_count, failed_count, cleanups, finished,
                   errors, trace, out_name, overwritten, aborted>>


(***************************************************************************)
(* The registry, statement by statement                                    *)
(***************************************************************************)
\* __del__ of an instance up to `if self.temp_dir in temp_directories`: the
\* handles are closed and the two conditions are evaluated
DelCheck ==
    /\ disposing = None
    /\ \E i \in DOMAIN parsers :
          /\ parsers[i].alive
          /\ parsers' = [parsers EXCEPT ![i].alive = FALSE]
          /\ disposing' =
                IF parsers[i].temp_dir \notin scratch THEN None
                ELSE IF parsers[i].temp_dir \in Registered
                THEN Some([dir |-> parsers[i].temp_dir, pc |-> "remove"])
                ELSE Some([dir |-> parsers[i].temp_dir, pc |-> "rmtree"])
    /\ UNCHANGED <<archive, temp_directories, scratch, created, opened, swept,
                   sweep, value_errors, rvars, dvars, tvars, mvars, wvars>>

\* temp_directories.remove(self.temp_dir) of __del__; the ValueError of an
\* entry that is no longer there ends __del__ in its except clause
DelRemove ==
    /\ disposing # None /\ disposing[1].pc = "remove"
    /\ IF disposing[1].dir \in Registered
       THEN /\ temp_directories' = RemoveFirst(temp_directories, disposing[1].dir)
            /\ disposing' = Some([disposing[1] EXCEPT !.pc = "rmtree"])
            /\ UNCHANGED value_errors
       ELSE /\ value_errors' = value_errors \cup {"__del__"}
            /\ disposing' = None
            /\ UNCHANGED temp_directories
    /\ UNCHANGED <<archive, scratch, created, parsers, opened, swept, sweep,
                   rvars, dvars, tvars, mvars, wvars>>

\* shutil.rmtree(self.temp_dir, ignore_errors=True) of __del__
DelRmtree ==
    /\ disposing # None /\ disposing[1].pc = "rmtree"
    /\ scratch' = scratch \ {disposing[1].dir}
    /\ disposing' = None
    /\ UNCHANGED <<archive, temp_directories, created, parsers, opened, swept, sweep,
                   value_errors, rvars, dvars, tvars, mvars, wvars>>

\* cleanup_all_temp_dirs: `for temp_dir in cls.temp_directories[:]` copies the
\* list
SweepCopy ==
    /\ sweep = None
    /\ temp_directories # <<>>
    /\ sweep' = Some([todo |-> temp_directories, pc |-> "rmtree"])
    /\ UNCHANGED <<avars, disposing, value_errors, rvars, dvars, tvars, mvars, wvars>>

\* cleanup_all_temp_dirs: `if os.path.exists(temp_dir): shutil.rmtree(...)`
SweepRmtree ==
    /\ sweep # None /\ sweep[1].pc = "rmtree"
    /\ scratch' = scratch \ {Head(sweep[1].todo)}
    /\ sweep' = Some([sweep[1] EXCEPT !.pc = "remove"])
    /\ UNCHANGED <<archive, temp_directories, created, parsers, opened, swept,
                   disposing, value_errors, rvars, dvars, tvars, mvars, wvars>>

\* cleanup_all_temp_dirs: cls.temp_directories.remove(temp_dir), whose
\* ValueError is caught inside the loop, and the next round of the loop
SweepRemove ==
    /\ sweep # None /\ sweep[1].pc = "remove"
    /\ IF Head(sweep[1].todo) \in Registered
       THEN /\ temp_directories' = RemoveFirst(temp_directories, Head(sweep[1].todo))
            /\ UNCHANGED value_errors
       ELSE /\ value_errors' = value_errors \cup {"cleanup_all_temp_dirs"}
            /\ UNCHANGED temp_directories
    /\ sweep' = IF Tail(sweep[1].todo) = <<>> THEN None
                ELSE Some([todo |-> Tail(sweep[1].todo), pc |-> "rmtree"])
    /\ UNCHANGED <<archive, scratch, created, parsers, opened, swept, disposing,
                   rvars, dvars, tvars, mvars, wvars>>

(***************************************************************************)
(* The main window and its worker threads                                  *)
(***************************************************************************)
\* at most this many files found by one discovery
MaxPreview == 2
\* at most this many worker threads started by one window
MaxUnits == 3

\* preview_list: how many entries it has and where the first of them comes
\* from: the cache, or an archive extracted to the directory dir
NoPreview == [kind |-> "none", n |-> 0, dir |-> None]

\* the signals run() of a discovery thread emits once its parser was made:
\* one file_found per file and finished; without a file, or on an exception,
\* error_occurred before finished
FilesThen(k, tail) == [i \in 1..k |-> "file_found"] \o tail
ErrorPlan == <<"error_occurred", "finished">>
DiscoveryPlans ==
    { FilesThen(k, <<"finished">>) : k \in 1..MaxPreview }
        \cup { FilesThen(k, ErrorPlan) : k \in 0..(MaxPreview - 1) }

\* a started worker thread: whether its run() is over, the preview entries it
\* was given and what it made of them
Unit(id, kind, given) ==
    [id |-> id, kind |-> kind, ran |-> FALSE, given |-> given, saved |-> 0]
\* the signals of a plan as they are queued for the window
Signals(u, plan, dir) == [i \in DOMAIN plan |-> [unit |-> u.id, sig |-> plan[i], dir |-> dir]]

\* glob(join(tempfile.gettempdir(), 'archive_extract_*')) removed
SweepSystemTemp(dirs) == { d \in dirs : d.where # SystemTemp }

\* MainWindow.start_parsing with a cache path that exists
StartParsing ==
    /\ parse_btn /\ dialog = 0 /\ started < MaxUnits
    /\ preview_list' = NoPreview
    /\ parse_btn' = FALSE /\ save_btn' = FALSE /\ archive_btn' = FALSE
    /\ started' = started + 1
    /\ running' = running \cup {Unit(started + 1, "ParserThread", NoPreview)}
    /\ last_slot' = "none"
    /\ UNCHANGED <<events, dialog, extract_dirs, has_archive_thread,
                   config_auto, saves, rvars, dvars, tvars, avars, mvars, gvars>>

\* MainWindow.select_archive with a file chosen in the dialog
SelectArchive ==
    /\ archive_btn /\ dialog = 0 /\ started < MaxUnits
    /\ preview_list' = NoPreview
    /\ save_btn' = FALSE /\ parse_btn' = FALSE /\ archive_btn' = FALSE
    /\ has_archive_thread' = TRUE
    /\ started' = started + 1
    /\ running' = running \cup {Unit(started + 1, "ArchiveParserThread", NoPreview)}
    /\ last_slot' = "none"
    /\ UNCHANGED <<events, dialog, extract_dirs, config_auto, saves,
                   rvars, dvars, tvars, avars, mvars, gvars>>

\* MainWindow.save_parsed_files with a preview that is not empty and an output
\* folder that can be written
SaveParsedFiles ==
    /\ save_btn /\ dialog = 0 /\ started < MaxUnits
    /\ preview_list.n > 0
    /\ parse_btn' = FALSE /\ save_btn' = FALSE
    /\ started' = started + 1
    /\ running' = running \cup {Unit(started + 1, "SaveThread", preview_list)}
    /\ last_slot' = "none"
    /\ UNCHANGED <<archive_btn, preview_list, events, dialog, extract_dirs,
                   has_archive_thread, config_auto, saves,
                   rvars, dvars, tvars, avars, mvars, gvars>>

\* ParserThread.run
ParserThreadRun ==
    /\ \E u \in running, plan \in DiscoveryPlans :
          /\ u.kind = "ParserThread" /\ ~u.ran
          /\ running' = (running \ {u}) \cup {[u EXCEPT !.ran = TRUE]}
          /\ events' = events \o Signals(u, plan, None)
    /\ UNCHANGED <<parse_btn, save_btn, archive_btn, preview_list, dialog,
                   extract_dirs, has_archive_thread, config_auto, saves, started,
                   last_slot, rvars, dvars, tvars, avars, mvars, gvars>>

\* ArchiveParserThread.run: self.parser = ArchiveParser(path) raises, or makes
\* its directory in the system temp directory or beside the program, and the
\* files extracted into it are announced
ArchiveParserThreadRun ==
    /\ \E u \in running :
          /\ u.kind = "ArchiveParserThread" /\ ~u.ran
          /\ running' = (running \ {u}) \cup {[u EXCEPT !.ran = TRUE]}
          /\ \/ /\ events' = events \o Signals(u, ErrorPlan, None)
                /\ UNCHANGED extract_dirs
             \/ \E where \in {SystemTemp, CurrentDir}, plan \in DiscoveryPlans :
                   /\ extract_dirs' = extract_dirs \cup {ScratchDir(where, u.id)}
                   /\ events' = events \o Signals(u, plan, Some(ScratchDir(where, u.id)))
    /\ UNCHANGED <<parse_btn, save_btn, archive_btn, preview_list, dialog,
                   has_archive_thread, config_auto, saves, started, last_slot,
                   rvars, dvars, tvars, avars, mvars, gvars>>

\* how many of the given entries a SaveThread saves: the entries of an archive
\* whose directory is gone all fail
SavedOf(given, dirs) ==
    IF given.kind = "archive" /\ given.dir[1] \notin dirs THEN 0 ELSE given.n

\* SaveThread.run: the copy loop, error_occurred when a file failed, finished
SaveThreadRun ==
    /\ \E u \in running : \E saved \in {SavedOf(u.given, extract_dirs)} :
          /\ u.kind = "SaveThread" /\ ~u.ran
          /\ running' = (running \ {u}) \cup {[u EXCEPT !.ran = TRUE, !.saved = saved]}
          /\ events' = events \o Signals(u, IF saved < u.given.n THEN ErrorPlan
                                            ELSE <<"finished">>, None)
    /\ UNCHANGED <<parse_btn, save_btn, archive_btn, preview_list, dialog,
                   extract_dirs, has_archive_thread, config_auto, saves, started,
                   last_slot, rvars, dvars, tvars, avars, mvars, gvars>>

\* the thread a queued signal comes from
Sender(e) == CHOOSE u \in running : u.id = e.unit

\* MainWindow.add_file_to_preview, the slot of file_found
AddFileToPreview ==
    /\ events # <<>> /\ Head(events).sig = "file_found"
    /\ events' = Tail(events)
    /\ preview_list' =
          IF preview_list.n > 0
          THEN [preview_list EXCEPT !.n = preview_list.n + 1]
          ELSE [kind |-> IF Head(events).dir = None THEN "cache" ELSE "archive",
                n |-> 1, dir |-> Head(events).dir]
    /\ last_slot' = "none"
    /\ UNCHANGED <<parse_btn, save_btn, archive_btn, running, dialog, extract_dirs, has_archive_thread, config_auto, saves, started,
                   rvars, dvars, tvars, avars, mvars, gvars>>

\* MainWindow.show_error, the slot of error_occurred, up to its message box
ShowError ==
    /\ events # <<>> /\ Head(events).sig = "error_occurred"
    /\ events' = Tail(events)
    /\ dialog' = dialog + 1
    /\ last_slot' = "none"
    /\ UNCHANGED <<parse_btn, save_btn, archive_btn, preview_list, running, extract_dirs, has_archive_thread, config_auto, saves, started,
                   rvars, dvars, tvars, avars, mvars, gvars>>

\* MainWindow.show_error after its message box was closed
ShowErrorReturns ==
    /\ dialog > 0
    /\ dialog' = dialog - 1
    /\ parse_btn' = TRUE /\ save_btn' = TRUE
    /\ last_slot' = "none"
    /\ UNCHANGED <<archive_btn, preview_list, running, events, extract_dirs, has_archive_thread, config_auto, saves, started,
                   rvars, dvars, tvars, avars, mvars, gvars>>

\* MainWindow.parsing_finished, the slot of finished of a ParserThread
ParsingFinished ==
    /\ events # <<>> /\ Head(events).sig = "finished"
    /\ Sender(Head(events)).kind = "ParserThread"
    /\ events' = Tail(events)
    /\ running' = running \ {Sender(Head(events))}
    /\ parse_btn' = TRUE
    /\ save_btn' = (save_btn \/ preview_list.n > 0)
    /\ last_slot' = "parsing_finished"
    /\ UNCHANGED <<archive_btn, preview_list, dialog, extract_dirs,
                   has_archive_thread, config_auto, saves, started,
                   rvars, dvars, tvars, avars, mvars, gvars>>

\* MainWindow.archive_parsing_finished, the slot of finished of an
\* ArchiveParserThread
ArchiveParsingFinished ==
    /\ events # <<>> /\ Head(events).sig = "finished"
    /\ Sender(Head(events)).kind = "ArchiveParserThread"
    /\ events' = Tail(events)
    /\ running' = running \ {Sender(Head(events))}
    /\ parse_btn' = TRUE /\ archive_btn' = TRUE
    /\ save_btn' = (save_btn \/ preview_list.n > 0)
    /\ last_slot' = "archive_parsing_finished"
    /\ UNCHANGED <<preview_list, dialog, extract_dirs,
                   has_archive_thread, config_auto, saves, started,
                   rvars, dvars, tvars, avars, mvars, gvars>>

\* MainWindow.saving_finished, the slot of finished of a SaveThread, the three
\* buttons and the directories: with auto_clear_cache, clear_cache(auto_mode=
\* True) empties the preview and sweeps the temp directory; else, after any
\* archive was selected, clear_temp_archives() sweeps the temp directory
SavingFinishedSlot ==
    /\ events # <<>> /\ Head(events).sig = "finished"
    /\ Sender(Head(events)).kind = "SaveThread"
    /\ events' = Tail(events)
    /\ running' = running \ {Sender(Head(events))}
    /\ saves' = Append(saves, [given |-> Sender(Head(events)).given,
                               saved |-> Sender(Head(events)).saved])
    /\ parse_btn' = TRUE /\ archive_btn' = TRUE
    /\ IF config_auto
       THEN /\ preview_list' = NoPreview
            /\ save_btn' = FALSE
            /\ extract_dirs' = SweepSystemTemp(extract_dirs)
       ELSE /\ save_btn' = TRUE
            /\ extract_dirs' = IF has_archive_thread THEN SweepSystemTemp(extract_dirs)
                               ELSE extract_dirs
            /\ UNCHANGED preview_list
    /\ last_slot' = "saving_finished"
    /\ UNCHANGED <<dialog, has_archive_thread, config_auto, started,
                   rvars, dvars, tvars, avars, mvars, gvars>>

\* MainWindow.clear_cache(), the slot of the clear button, confirmed
ClearCache ==
    /\ dialog = 0
    /\ preview_list' = NoPreview
    /\ save_btn' = FALSE
    /\ archive_btn' = TRUE
    /\ extract_dirs' = SweepSystemTemp(extract_dirs)
    /\ last_slot' = "none"
    /\ UNCHANGED <<parse_btn, running, events, dialog, has_archive_thread, config_auto, saves, started,
                   rvars, dvars, tvars, avars, mvars, gvars>>

\* the window as __init__ leaves it, with either setting of auto_clear_cache
WInit ==
    /\ parse_btn = TRUE /\ save_btn = FALSE /\ archive_btn = TRUE
    /\ preview_list = NoPreview /\ running = {} /\ events = <<>>
    /\ dialog = 0 /\ extract_dirs = {}
    /\ has_archive_thread = FALSE /\ config_auto \in BOOLEAN /\ saves = <<>>
    /\ started = 0 /\ last_slot = "none"

(***************************************************************************)
(* Specifications                                                          *)
(***************************************************************************)
vars == <<rvars, dvars, tvars, avars, xvars>>

\* no parser has been made and no favorites path resolved
RIdle == fs = {} /\ root = RootW /\ rpc = "parser" /\ result = NotFound
\* no discovery has run
DIdle ==
    /\ listing = <<>> /\ db = NoDb /\ media_files = <<>> /\ scans = 0
    /\ first_list = None /\ from_walk = FALSE /\ scanned = <<>> /\ strategy = "unset"
    /\ yielded = None /\ touched = FALSE
    /\ raised = None /\ winner = 0 /\ executed = 0
\* no SaveThread has been made
TIdle ==
    /\ input = <<>> /\ is_archive = FALSE /\ files = <<>> /\ disk = <<>>
    /\ save_folder = <<>> /\ safe_temp_dir = FALSE /\ file_handles = FALSE
    /\ tpc = "Idle" /\ step = "none" /\ saver = "none" /\ idx = 0
    /\ new_files = <<>> /\ saved_count = 0 /\ failed_count = 0
    /\ cleanups = 0 /\ finished = 0 /\ errors = 0 /\ trace = <<>>
    /\ out_name = <<>> /\ overwritten = FALSE /\ aborted = FALSE
    /\ progress = <<>> /\ auto_clear = FALSE /\ deleted = {}

\* no ArchiveParser has been made
AIdle ==
    /\ archive = [exists |-> FALSE, zip_ext |-> FALSE, zip_magic |-> FALSE]
    /\ temp_directories = <<>> /\ scratch = {} /\ created = {}
    /\ parsers = <<>> /\ opened = "none" /\ swept = FALSE

\* no archive has been extracted
MIdle == members = <<>> /\ archive_media = None
\* no thread is inside __del__ or cleanup_all_temp_dirs
GIdle == disposing = None /\ sweep = None /\ value_errors = {}
\* no window has been made
WIdle ==
    /\ parse_btn = FALSE /\ save_btn = FALSE /\ archive_btn = FALSE
    /\ preview_list = NoPreview /\ running = {} /\ events = <<>>
    /\ dialog = 0 /\ extract_dirs = {}
    /\ has_archive_thread = FALSE /\ config_auto = FALSE /\ saves = <<>>
    /\ started = 0 /\ last_slot = "none"
XIdle == MIdle /\ GIdle /\ WIdle

\* path resolution of one WeChatParser
RInitAll == RInit /\ DIdle /\ TIdle /\ AIdle /\ XIdle
RNext == Resolve
SpecResolve == RInitAll /\ [][RNext]_vars

\* the discovery calls on one WeChatParser
DInitAll == DInit /\ TIdle /\ AIdle /\ XIdle
SpecDiscover == DInitAll /\ [][DNext]_vars

\* one run of a SaveThread
TInitAll == TInit /\ RIdle /\ DIdle /\ AIdle /\ XIdle
TNext ==
    \/ StartRun \/ StageStep \/ StageDone \/ ParserReady \/ ParserFailed
    \/ SetupOk \/ SetupFailed \/ SaveWithParser \/ SaveDirectly
    \/ SaveWithArchiveParser \/ CopyDone \/ ParserAbort \/ Abort \/ Release \/ Finish
    \/ SavingFinished
SpecTransfer == TInitAll /\ [][TNext]_vars

\* the ArchiveParser instances of one process and the sweeps of their directories
AInitAll == AInit /\ RIdle /\ DIdle /\ TIdle /\ XIdle
ANext == OpenArchive \/ Dispose \/ CleanupAllTempDirs \/ ClearTempArchives
SpecArchive == AInitAll /\ [][ANext]_vars

\* the first listing of an archive by one of the ArchiveParser instances
LInitAll == AInit /\ RIdle /\ DIdle /\ TIdle /\ MIdle /\ GIdle /\ WIdle
LNext == OpenArchive \/ Dispose \/ ArchiveGetTotalFiles
SpecListing == LInitAll /\ [][LNext]_vars

\* the threads of one process that make and dispose of ArchiveParser instances
\* and sweep the registry, one statement on the registry at a time
GInitAll == AInit /\ RIdle /\ DIdle /\ TIdle /\ MIdle /\ GIdle /\ WIdle
GNext ==
    \/ OpenArchive \/ DelCheck \/ DelRemove \/ DelRmtree
    \/ SweepCopy \/ SweepRmtree \/ SweepRemove
SpecRegistry == GInitAll /\ [][GNext]_vars

\* one main window, its buttons and the threads it starts
WInitAll == WInit /\ RIdle /\ DIdle /\ TIdle /\ AIdle /\ MIdle /\ GIdle
WNext ==
    \/ StartParsing \/ SelectArchive \/ SaveParsedFiles
    \/ ParserThreadRun \/ ArchiveParserThreadRun \/ SaveThreadRun
    \/ AddFileToPreview \/ ShowError \/ ShowErrorReturns
    \/ ParsingFinished \/ ArchiveParsingFinished \/ SavingFinishedSlot
    \/ ClearCache
SpecWindow == WInitAll /\ [][WNext]_vars

(***************************************************************************)
(* Claims about the transfer (checked under SpecTransfer)                  *)
(***************************************************************************)
\* C1: the entry at input position p (1-based here) is written under the
\* prefix p zero-padded to the number of digits of the length of the input
\* list, and the written names sort in input order.
C1_PrefixIsInputPosition ==
    \A p \in DOMAIN out_name :
        out_name[p] # <<>> =>
            /\ StartsWith(out_name[p],
                          ZFill(Str(p), Len(Str(Len(input)))) \o sUnderscore)
            /\ \A q \in DOMAIN out_name :
                  (p < q /\ out_name[q] # <<>>) => LexLess(out_name[p], out_name[q])

\* the copy loop of the run was entered and ran to its end
LoopCompleted ==
    /\ tpc \in {"Cleanup", "Done"}
    /\ ~aborted
    /\ \E j \in DOMAIN trace : trace[j] = "Copying"
\* the input positions whose source file does not exist
GoneSources == { k \in DOMAIN input : input[k].path \notin DOMAIN disk }

\* C2: when the copy loop of a run over n entries has completed, on the cache
\* path and on the archive path alike, savedCount + failedCount = n, and when
\* the only faulty entries are entries whose source is gone, each of them
\* counts as one failure and all the others are saved.
C2_CountsCoverEveryEntry ==
    (LoopCompleted /\ step # "closed") =>
        /\ saved_count + failed_count = Len(input)
        /\ (\A k \in DOMAIN input \ GoneSources : disk[input[k].path] # <<>>) =>
              /\ failed_count = Cardinality(GoneSources)
              /\ saved_count = Len(input) - Cardinality(GoneSources)

\* C3: no write of a transfer hits a name that already exists in the
\* destination folder, so every file of the folder keeps its bytes.
C3_NeverOverwrites == ~overwritten

\* C4 as stated: a finished run has been in Idle, Preparing, Copying, Cleanup
\* and Done, in that order and in no other state sequence; finished is emitted
\* once, after the handles are closed and the scratch directory cleaned up.
C4_NoStateSkipped ==
    /\ finished <= 1
    /\ finished = 1 => ~file_handles /\ cleanups >= 1
    /\ tpc = "Done" =>
          /\ finished = 1
          /\ trace = <<"Idle", "Preparing", "Copying", "Cleanup", "Done">>

\* the state changes a run can make
AllowedMoves ==
    { <<"Idle", "Preparing">>, <<"Preparing", "Copying">>, <<"Copying", "Cleanup">>,
      <<"Cleanup", "Done">>, <<"Preparing", "Cleanup">>, <<"Copying", "Preparing">> }

\* C4 as the code has it: a run goes Idle, Preparing, Copying, Cleanup, Done,
\* except that it goes from Preparing straight to Cleanup, after an error was
\* reported, when the destination cannot be prepared or an unexpected exception
\* is raised, and that on the cache path an unexpected exception of the
\* parser-based copy sends it back to Preparing once; finished is emitted once,
\* at the move to Done, after the handles of the archive source are closed and
\* cleanup_temp_dir was called.
C4_ReleaseBeforeFinished ==
    /\ finished <= 1
    /\ finished = 1 => ~file_handles /\ ~safe_temp_dir /\ cleanups >= 1
    /\ tpc = "Done" <=> finished = 1
    /\ trace[1] = "Idle" /\ trace[Len(trace)] = tpc
    /\ \A j \in 1..(Len(trace) - 1) :
          /\ <<trace[j], trace[j + 1]>> \in AllowedMoves
          /\ (trace[j] = "Preparing" /\ trace[j + 1] = "Cleanup") => errors >= 1
          /\ (trace[j] = "Copying" /\ trace[j + 1] = "Preparing") =>
                /\ ~is_archive /\ aborted
                /\ \A m \in (j + 1)..(Len(trace) - 1) : trace[m] # "Copying"
                      \/ trace[m + 1] # "Preparing"

\* an archive run whose copy loop was cut short by an unexpected exception has
\* emitted finished, with the handles closed and the scratch directory cleaned
C4_Witness ==
    /\ tpc = "Done" /\ is_archive /\ aborted /\ finished = 1
    /\ trace = <<"Idle", "Preparing", "Copying", "Cleanup", "Done">>
    /\ 0 < idx /\ idx < Len(files)
    /\ ~file_handles /\ cleanups = 1


(***************************************************************************)
(* Claims about discovery (checked under SpecDiscover)                     *)
(***************************************************************************)
\* C5: when no structured store is found, the strategy reported by
\* get_sorting_strategy_info is never StoreOrder.
C5_NoStoreNeverStoreOrder == db = NoDb => strategy # "StoreOrder"

\* a file whose base name ends with a thumbnail marker
HasThumbSuffix(name) ==
    \E m \in {s_th, s_thumb, s_thumbnail} : EndsWith(LowerStr(SplitExt(name)[1]), m)

\* C6: no entry of the discovered list, and no entry parse_favorites yields,
\* is a file whose base name ends in _th, _thumb or _thumbnail, whichever
\* branch (store query or directory walk) produced it.
C6_NoThumbnailReturned ==
    /\ \A i \in DOMAIN media_files : ~HasThumbSuffix(media_files[i].path)
    /\ yielded # None => \A i \in DOMAIN yielded[1] : ~HasThumbSuffix(yielded[1][i].path)

PathsOf(media) == [i \in DOMAIN media |-> media[i].path]

\* C7: after the first discovery call on an instance _find_media_files never
\* runs again, and the instance keeps the files of the first result, whatever
\* that result was.
C7_IdempotentPerInstance ==
    /\ scans <= 1
    /\ first_list # None => PathsOf(media_files) = PathsOf(first_list[1])

HasDirectFile(r) == \E f \in fs : Len(f) = Len(r) + 1 /\ SubSeq(f, 1, Len(r)) = r /\ IsFileNode(f)
IsBelow(p, r) == Len(p) > Len(r) /\ SubSeq(p, 1, Len(r)) = r

\* a plausible content directory exists at or under r: r is itself named like
\* a favorites directory, a directory below r is, a wxid_ account directory
\* directly under r has one of the fixed favorites paths, or r is the
\* abbreviated FileStorage/Fav... form of an existing path
Plausible(r) ==
    \/ LeafIsFavorites(r)
    \/ \E p \in fs : IsBelow(p, r) /\ ~IsFileNode(p) /\ FavPattern(Basename(p))
    \/ \E w \in fs : /\ Dirname(w) = r /\ ~IsFileNode(w) /\ WxidPattern(Basename(w))
                     /\ \/ w \o <<sFavorites>> \in fs
                        \/ w \o <<sFileStorage, sFavorites>> \in fs
                        \/ w \o <<sFav>> \in fs
    \/ NeedsCompletion(r) /\ CompletePath(r) \in fs

\* C9 as stated: resolve fails when root does not exist or holds no plausible
\* content directory, and root itself is returned as a last resort only when it
\* directly contains files and no subdirectories.
C9_LastResortOnlyFlat ==
    rpc = "done" =>
        /\ root \notin fs => result = NotFound
        /\ (result = root /\ ~LeafIsFavorites(root)) =>
              /\ HasDirectFile(root)
              /\ \A p \in fs : Dirname(p) = root => IsFileNode(p)

\* C9 as the code has it: resolve fails when root does not exist, and when
\* root holds neither a plausible content directory nor a file of its own;
\* root is returned as a last resort exactly when no plausible content
\* directory exists and root directly contains a file, with or without
\* subdirectories next to that file.
C9_LastResortWithFiles ==
    rpc = "done" =>
        /\ root \notin fs => result = NotFound
        /\ (root \in fs /\ ~Plausible(root) /\ ~HasDirectFile(root)) => result = NotFound
        /\ (root \in fs /\ ~Plausible(root) /\ HasDirectFile(root)) => result = root
        /\ (result = root /\ ~LeafIsFavorites(root)) =>
              ~Plausible(root) /\ HasDirectFile(root)
        /\ result = NotFound => ~Plausible(root) \/ root \notin fs

\* root was returned as a last resort although it has a subdirectory
C9_Witness ==
    /\ rpc = "done" /\ result = root /\ ~LeafIsFavorites(root)
    /\ \E p \in fs : Dirname(p) = root /\ ~IsFileNode(p)

KnownLayouts ==
    { <<sFavorites>>, <<sFileStorage, sFavorites>>, <<sWeChatFiles, sFavorites>>,
      <<sFavorites, sFile>>, <<sFavorites, sImages>>, <<sFavorites, sVideos>> }
\* root holds the layout lay and nothing else: the layout's directory, the
\* directories leading to it, and one media file in it
OnlyLayout(lay) ==
    fs = { root \o SubSeq(lay, 1, k) : k \in 0..Len(lay) } \cup { root \o lay \o <<sAJpg>> }

\* C10: when root holds one of the known layouts, resolve returns the directory
\* of that layout that contains the media files.
C10_LayoutDirectoryReturned ==
    rpc = "done" =>
        \A lay \in KnownLayouts : OnlyLayout(lay) => result = root \o lay


(***************************************************************************)
(* Claims about archive extractors (checked under SpecArchive)             *)
(***************************************************************************)
\* C11: ArchiveParser(archive_path) ends with FileNotFoundError whenever the
\* path does not exist, whatever its extension, and with ValueError (the
\* unsupported-format error) for every existing file whose header is not the
\* ZIP header.
C11_UnsupportedByHeader ==
    opened # "none" =>
        /\ ~archive.exists => opened = "FileNotFoundError"
        /\ (archive.exists /\ ~archive.zip_magic) => opened = "ValueError"

\* C15: every extraction directory an ArchiveParser created and that exists is
\* in the registry, and once clear_temp_archives (the sweep of cache-clear and
\* shutdown) has run, no directory an ArchiveParser created is left on disk or
\* in the registry.
C15_SweepLeavesNothing ==
    /\ \A d \in created : d \in scratch => d \in Registered
    /\ swept => /\ created \cap scratch = {}
                /\ temp_directories = <<>>


(***************************************************************************)
(* More claims about the transfer (checked under SpecTransfer)             *)
(***************************************************************************)
\* nothing was in the destination folder when the run began
FreshDestination ==
    ~overwritten /\ \A f \in DOMAIN save_folder : save_folder[f] # OldBytes

\* C12: the N entries an extraction produced (each entry's file exists in the
\* extraction directory) are transferred to an empty destination as exactly N
\* files, each of non-zero size, each under the prefix of its position in the
\* discovered list, the names sorting in that order.
C12_RoundTrip ==
    (is_archive /\ LoopCompleted /\ step # "closed" /\ GoneSources = {}
       /\ FreshDestination) =>
        /\ Cardinality(DOMAIN save_folder) = Len(input)
        /\ \A f \in DOMAIN save_folder : save_folder[f] # <<>>
        /\ \A p \in DOMAIN input :
              /\ out_name[p] \in DOMAIN save_folder
              /\ StartsWith(out_name[p],
                            ZFill(Str(p), Len(Str(Len(input)))) \o sUnderscore)
              /\ \A q \in DOMAIN input : p < q => LexLess(out_name[p], out_name[q])

\* C13: the percentages a run reports never decrease, and each of them is
\* (index + 1) / total * 100, truncated, for an index of the list.
C13_ProgressNeverDecreases ==
    /\ \A j \in 1..(Len(progress) - 1) : progress[j] <= progress[j + 1]
    /\ \A j \in DOMAIN progress :
          \E i \in 0..(Len(input) - 1) : progress[j] = Percent(i, Len(input), 100)

\* the cache files the run saved: the source of an entry that was written to
\* the destination with its bytes
SavedSources ==
    { input[p].path : p \in { q \in DOMAIN input :
           /\ out_name[q] # <<>>
           /\ out_name[q] \in DOMAIN save_folder
           /\ save_folder[out_name[q]] # <<>> } }

\* C16: the cache clearing that follows a transfer removes a cache file only
\* if the transfer saved it; in particular a run with failed entries, a run
\* that reported an error and a run over archive entries lose no cache file
\* that was not saved.
C16_OnlySavedFilesCleared ==
    \A f \in deleted : f \in SavedSources


(***************************************************************************)
(* More claims about discovery (checked under SpecDiscover)                *)
(***************************************************************************)
\* the database of the instance can be queried
Queryable == db # NoDb /\ ~db.malformed
\* query template k runs without error and returns at least one row
HasRows(k) == RunQuery(db, Templates[k]).ok /\ RunQuery(db, Templates[k]).rows # <<>>
\* the rows of query template k whose identifier resolved to a file
ResolvedRows(k) ==
    LET q == RunQuery(db, Templates[k])
    IN  { i \in DOMAIN q.rows : FindFileById(q.rows[i].item_id, scanned) # None }
\* query template k runs without error and a row of it resolves to a file
Resolving(k) == RunQuery(db, Templates[k]).ok /\ ResolvedRows(k) # {}

C17_StoreOrderVerbatim ==
    (scans > 0 /\ ~from_walk /\ raised = None) =>
        PathsOf(media_files)
            = PathsOf(RowEntries(RunQuery(db, Templates[winner]).rows, scanned))

\* at least 80% of the entries share one modification time
MostlyOneMtime(media) ==
    \E t \in MTimes :
        10 * Cardinality({ i \in DOMAIN media : media[i].sort_key = Some(t) })
            >= 8 * Len(media)

\* C18: a list of the directory walk in which at least 80% of the files share
\* a modification time is in non-decreasing order of (modification time, first
\* run of digits of the file name, 0 without digits).
C18_TieBreakByNumber ==
    (scans > 0 /\ from_walk /\ raised = None /\ media_files # <<>>
       /\ MostlyOneMtime(media_files)) =>
        \A i \in 1..(Len(media_files) - 1) :
            ~KeyLess(<<media_files[i + 1].sort_key[1], ExtractNumber(media_files[i + 1].path)>>,
                     <<media_files[i].sort_key[1], ExtractNumber(media_files[i].path)>>)

\* C19 as stated: the first query template that returns a row wins; the list
\* comes from its rows and no later template is executed.
C19_FirstWithRowsWins ==
    (scans > 0 /\ Queryable) =>
        \A k \in DOMAIN Templates :
            (HasRows(k) /\ \A j \in 1..(k - 1) : ~HasRows(j)) =>
                winner = k /\ executed = k

\* C19 as the code has it: the templates are tried in their order, a template
\* that fails or none of whose rows resolves to a file is passed over, and the
\* first template with a row that resolves to a file wins: the list holds
\* exactly its resolved rows and no later template is executed.  When no
\* template has such a row, all of them are executed and the walk is used.
C19_FirstResolvingWins ==
    (scans > 0 /\ Queryable) =>
        /\ \A k \in DOMAIN Templates :
              (Resolving(k) /\ \A j \in 1..(k - 1) : ~Resolving(j)) =>
                  /\ winner = k /\ executed = k /\ ~from_walk
                  /\ Len(media_files) = Cardinality(ResolvedRows(k))
                  /\ { media_files[i].id : i \in DOMAIN media_files }
                        = { Some(RunQuery(db, Templates[k]).rows[i].item_id) :
                                i \in ResolvedRows(k) }
        /\ (\A k \in DOMAIN Templates : ~Resolving(k)) =>
              winner = 0 /\ executed = Len(Templates) /\ from_walk

\* an earlier template returned a row that resolved to no file, and the list
\* was taken from a later template
C19_Witness ==
    /\ scans > 0 /\ Queryable /\ ~from_walk
    /\ \E j \in 1..(winner - 1) : HasRows(j) /\ ~Resolving(j)
    /\ media_files # <<>>

\* C20: every entry of the discovered list, and every entry parse_favorites
\* yields, is a file whose extension, lower-cased, is a media extension.
C20_OnlyMediaExtensions ==
    /\ \A i \in DOMAIN media_files :
          LowerStr(SplitExt(media_files[i].path)[2]) \in MediaExtensions
    /\ yielded # None =>
          \A i \in DOMAIN yielded[1] :
              LowerStr(SplitExt(yielded[1][i].path)[2]) \in MediaExtensions

(***************************************************************************)
(* More claims about the path resolution (checked under SpecResolve)       *)
(***************************************************************************)
\* C21: an existing cache path whose last component, lower-cased, is
\* "favorites" or begins with "fav" is returned as it is, without any probe
\* below it, unless the component is not "favorites" and a sibling directory
\* named "favorites" exists, which is then returned.
C21_FavLeafTakenDirectly ==
    (rpc = "done" /\ Exists(root) /\ StartsWith(LowerStr(Basename(root)), sfav)) =>
        IF LowerStr(Basename(root)) # sfavorites /\ FullSiblings(root) # {}
        THEN result \in FullSiblings(root)
        ELSE result = root

(***************************************************************************)
(* More claims about archive extractors (checked under SpecArchive)        *)
(***************************************************************************)
\* C22: every ArchiveParser that was constructed keeps a directory in which
\* the write probe succeeded, whether the directory is under the system temp
\* directory or in the fallback location.
C22_ProbedBeforeUse ==
    \A i \in DOMAIN parsers : parsers[i].probed

(***************************************************************************)
(* Further claims about discovery (checked under SpecDiscover)             *)
(***************************************************************************)
\* C28: no two entries of a discovered list have the same path.
C28_NoPathTwice ==
    \A i, j \in DOMAIN media_files :
        media_files[i].path = media_files[j].path => i = j

(***************************************************************************)
(* Further claims about the transfer (checked under SpecTransfer)          *)
(***************************************************************************)
\* the input positions whose entry has a file of non-zero size in the
\* destination folder under the name it was written to
GoodOutputs ==
    { p \in DOMAIN input : /\ out_name[p] # <<>>
                           /\ out_name[p] \in DOMAIN save_folder
                           /\ save_folder[out_name[p]] # <<>> }

\* C24: when the loop over the entries has completed, on each of the three
\* copy paths, an entry whose output file is missing or has size zero is not
\* counted as saved but as failed.
C24_EmptyOutputCountsAsFailed ==
    (LoopCompleted /\ step # "closed") =>
        /\ saved_count <= Cardinality(GoodOutputs)
        /\ failed_count >= Len(files) - Cardinality(GoodOutputs)

\* C27: after an archive transfer, the output file of every entry that has
\* one holds the bytes of the entry's own extracted file.
C27_OutputHasOwnBytes ==
    (is_archive /\ LoopCompleted /\ step # "closed" /\ FreshDestination) =>
        \A p \in GoodOutputs : save_folder[out_name[p]] = BytesOf(p)

(***************************************************************************)
(* Claims about archive discovery (checked under SpecListing)              *)
(***************************************************************************)
\* C23: archive discovery returns its entries sorted by (sort_key, filename),
\* and every file without a number after an underscore comes after every
\* file that has one, whatever the magnitude of the number.
C23_UntokenedLast ==
    archive_media # None =>
        LET r == archive_media[1]
        IN  /\ \A i, j \in DOMAIN r :
                  i < j => \/ r[i].sort_key < r[j].sort_key
                           \/ /\ r[i].sort_key = r[j].sort_key
                              /\ ~LexLess(r[j].name, r[i].name)
            /\ \A i, j \in DOMAIN r :
                  (HasToken(r[i].name) /\ ~HasToken(r[j].name)) => i < j

(***************************************************************************)
(* Claims about the main window (checked under SpecWindow)                 *)
(***************************************************************************)
\* C25: at most one worker thread runs at any time, and from the start of a
\* thread until its finished slot has run the parse, select-archive and save
\* buttons are all disabled.
C25_OneUnitAtATime ==
    /\ Cardinality(running) <= 1
    /\ running # {} => (~parse_btn /\ ~save_btn /\ ~archive_btn)

\* C29: right after parsing_finished, the slot that ends every cache discovery
\* run, the parse and select-archive buttons are enabled, and so is the save
\* button when the preview is not empty.
C29_ControlsBackAfterDiscovery ==
    last_slot = "parsing_finished" =>
        /\ parse_btn
        /\ archive_btn
        /\ preview_list.n > 0 => save_btn

\* C30: while the save button is enabled and the preview holds the entries of
\* an archive, the directory of these entries exists, and two transfers of the
\* same preview save the same number of files.
C30_ArchivePreviewStaysSavable ==
    /\ (save_btn /\ preview_list.kind = "archive" /\ preview_list.n > 0) =>
           preview_list.dir[1] \in extract_dirs
    /\ \A i, j \in DOMAIN saves :
          (saves[i].given.kind = "archive" /\ saves[i].given = saves[j].given) =>
              saves[i].saved = saves[j].saved

(***************************************************************************)
(* Claims about the registry threads (checked under SpecRegistry)          *)
(***************************************************************************)
\* a thread is between its read of the registry and its last write to it
Disposer == disposing # None /\ disposing[1].pc = "remove"
Sweeper == sweep # None

\* C26: the mutations of the registry are serialized: a disposal and a sweep
\* are never both between their read of the registry and their write to it,
\* no remove fails, and the directory of a live instance that exists stays
\* registered.
C26_RegistrySerialized ==
    /\ ~(Disposer /\ Sweeper)
    /\ value_errors = {}
    /\ \A i \in DOMAIN parsers :
          (parsers[i].alive /\ parsers[i].temp_dir \in scratch) =>
              parsers[i].temp_dir \in Registered

=============================================================================
